---- MODULE Spec2Model ----
(***************************************************************************)
(* Model of the safe-cookie analysis pipeline:                             *)
(*   URLValidator.validateAndNormalize  -> HttpClient.get (retry loop)     *)
(*   -> {SSL, Headers, Cookies, HTML} analyzers (Promise.allSettled)       *)
(*   -> AnalysisController consolidation, overall score and grade.         *)
(* Numbers that the JavaScript computes as doubles are kept as exact       *)
(* scaled integers; Math.round is modelled on the exact value, and only    *)
(* when that value lies exactly half-way between two integers is the       *)
(* outcome left to a boolean (tieUp), because there the accumulated        *)
(* double error decides which neighbour Math.round returns.                *)
(***************************************************************************)
EXTENDS Integers, Sequences, FiniteSets, TLC

VARIABLES
  pc,             \* position of the request handler / of the function under study
  url,            \* req.body.url, the raw user input
  dns,            \* environment: what dns.lookup answers for the 1st..4th candidate
  urlValidation,  \* result of urlValidator.validateAndNormalize
  tried,          \* the candidates _validateSingleUrl was called on, in call order
  attempt,        \* _makeRequestWithRetry: loop counter
  lastError,      \* _makeRequestWithRetry: lastError
  waited,         \* milliseconds of the _delay that preceded the current attempt
  config,         \* request config of HttpClient.get (validateStatus)
  site,           \* environment: what the target serves and how its network can fail
  wire,           \* the axios.get calls of this fetch so far, with their answers
  httpResponse,   \* value returned by httpClient.get
  raised,         \* error thrown by httpClient.get
  tasks,          \* the four analysis promises
  analysis,       \* the report object built by analyzeUrl
  res,            \* what the handler sent to the caller
  gradeScore,     \* input of the three _calculateGrade functions
  grades,         \* their outputs
  probes,         \* the TLS connections the SSL analyzer has opened, in order
  walk,           \* _analyzeChain: the certificate graph and the position of the walk
  runs,           \* repeated analysis: the runs finished so far
  finished,       \* repeated analysis: the analyzers of this run in settling order
  halfUp,         \* repeated analysis: whether Math.round takes an exact half up
  tlsSocket,      \* _getSSLInfo: socket, the TLS socket
  timeoutId,      \* _getSSLInfo: the manual handshake timer
  sslInfoPromise, \* _getSSLInfo: the promise it returns
  fired           \* _getSSLInfo: the events and the timer that have fired, in order

vars == <<pc, url, dns, urlValidation, tried, attempt, lastError, waited, config,
          site, wire, httpResponse, raised, tasks, analysis, res, gradeScore, grades,
          probes, walk, runs, finished, halfUp, tlsSocket, timeoutId, sslInfoPromise,
          fired>>

tlsVars == <<probes, walk>>
repeatVars == <<runs, finished, halfUp>>
handshakeVars == <<tlsSocket, timeoutId, sslInfoPromise, fired>>

----------------------------------------------------------------------------
(* Bounds of the model *)

MaxCritical == 4    \* critical findings in an aggregator input: 0..MaxCritical
MaxOther == 1       \* non-critical findings in an aggregator input
MaxForms == 3       \* <form> elements of a page: 0..MaxForms
MaxScripts == 1     \* <script src> elements of a page: 0..MaxScripts
MaxCerts == 3       \* certificate objects of a peer certificate graph
MaxCallDepth == 6   \* nested calls the engine's stack holds before RangeError

----------------------------------------------------------------------------
(* Generic helpers *)

None == [none |-> TRUE]

\* an array argument that was not passed (undefined)
Undefined == <<[undefined |-> TRUE]>>

Min(a, b) == IF a < b THEN a ELSE b
Max(a, b) == IF a > b THEN a ELSE b

RECURSIVE SeqsUpTo(_, _)
\* all sequences over S of length 0..n
SeqsUpTo(S, n) ==
  IF n = 0 THEN {<<>>}
  ELSE LET shorter == SeqsUpTo(S, n - 1)
       IN shorter \cup {Append(s, x) : s \in {t \in shorter : Len(t) = n - 1}, x \in S}

\* Array.prototype.filter(...).length
CountWhere(seq, Test(_)) == Cardinality({i \in DOMAIN seq : Test(seq[i])})

\* spread-concatenation of a sequence of arrays
RECURSIVE Flatten(_)
Flatten(seqs) == IF seqs = <<>> THEN <<>> ELSE Head(seqs) \o Flatten(Tail(seqs))

\* Math.round of the double that stands for n/d (d > 0).  Math.round rounds
\* to the nearest integer and an exact half upwards; the double for an exact
\* half k + 1/2 is either k + 1/2 or the double just below it.
MathRound(n, d, tieUp) ==
  LET q == n \div d
      r == n - q * d
  IN IF 2 * r > d THEN q + 1
     ELSE IF 2 * r < d THEN q
     ELSE IF tieUp THEN q + 1 ELSE q

\* the sum of a sequence of numbers
RECURSIVE SumSeq(_)
SumSeq(seq) == IF seq = <<>> THEN 0 ELSE Head(seq) + SumSeq(Tail(seq))

Range(seq) == {seq[i] : i \in DOMAIN seq}

\* [...new Set(array)]: the first occurrence of every element, in order
RECURSIVE Dedup(_)
Dedup(seq) ==
  IF seq = <<>> THEN <<>>
  ELSE LET front == Dedup(SubSeq(seq, 1, Len(seq) - 1))
           last == seq[Len(seq)]
       IN IF last \in Range(front) THEN front ELSE Append(front, last)

Finding(type, severity) == [type |-> type, severity |-> severity]

\* `x.vulnerabilities || []`
VulnsOrEmpty(x) == IF "vulnerabilities" \in DOMAIN x THEN x.vulnerabilities ELSE <<>>
\* `x.recommendations || []`
RecsOrEmpty(x) == IF "recommendations" \in DOMAIN x THEN x.recommendations ELSE <<>>
\* `x.score || 0`
ScoreOrZero(x) == IF "score" \in DOMAIN x THEN x.score ELSE 0

----------------------------------------------------------------------------
(* AnalysisController: aggregation *)

IsCritical(v) == v.severity = "critical"

calculateOverallScore_NoLowerClamp(a, tieUp) ==
  LET weighted == 25 * ScoreOrZero(a.ssl) + 35 * ScoreOrZero(a.headers)
                  + 25 * ScoreOrZero(a.cookies) + 15 * ScoreOrZero(a.html)
      criticalCount == CountWhere(a.vulnerabilities, IsCritical)
      afterCritical == weighted - 100 * Min(criticalCount * 10, 30)
      afterHttps == IF ~a.isHttps THEN afterCritical - 1500 ELSE afterCritical
  IN Min(100, MathRound(afterHttps, 100, tieUp))

calculateOverallScore_EqualWeights(a, tieUp) ==
  LET weighted == 25 * ScoreOrZero(a.ssl) + 25 * ScoreOrZero(a.headers)
                  + 25 * ScoreOrZero(a.cookies) + 25 * ScoreOrZero(a.html)
      criticalCount == CountWhere(a.vulnerabilities, IsCritical)
      afterCritical == weighted - 100 * Min(criticalCount * 10, 30)
      afterHttps == IF ~a.isHttps THEN afterCritical - 1500 ELSE afterCritical
  IN Max(0, Min(100, MathRound(afterHttps, 100, tieUp)))

\* _calculateOverallScore; the sum is kept in hundredths (weights 0.25, 0.35,
\* 0.25, 0.15 become 25, 35, 25, 15).
calculateOverallScore(a, tieUp) ==
  LET weighted == 25 * ScoreOrZero(a.ssl) + 35 * ScoreOrZero(a.headers)
                  + 25 * ScoreOrZero(a.cookies) + 15 * ScoreOrZero(a.html)
      criticalCount == CountWhere(a.vulnerabilities, IsCritical)
      afterCritical == weighted - 100 * Min(criticalCount * 10, 30)
      afterHttps == IF ~a.isHttps THEN afterCritical - 1500 ELSE afterCritical
  IN Max(0, Min(100, MathRound(afterHttps, 100, tieUp)))

ControllerCalculateGrade_StrictAPlus(score) ==
  IF score > 90 THEN "A+"
  ELSE IF score >= 80 THEN "A"
  ELSE IF score >= 70 THEN "B"
  ELSE IF score >= 60 THEN "C"
  ELSE IF score >= 50 THEN "D"
  ELSE "F"

\* AnalysisController._calculateGrade
ControllerCalculateGrade(score) ==
  IF score >= 90 THEN "A+"
  ELSE IF score >= 80 THEN "A"
  ELSE IF score >= 70 THEN "B"
  ELSE IF score >= 60 THEN "C"
  ELSE IF score >= 50 THEN "D"
  ELSE "F"

\* HeaderAnalyzer._calculateGrade
HeaderCalculateGrade(score) ==
  IF score >= 90 THEN "A+"
  ELSE IF score >= 80 THEN "A"
  ELSE IF score >= 70 THEN "B"
  ELSE IF score >= 60 THEN "C"
  ELSE IF score >= 50 THEN "D"
  ELSE "F"

\* CookieAnalyzer._calculateGrade
CookieCalculateGrade(score) ==
  IF score >= 90 THEN "A+"
  ELSE IF score >= 80 THEN "A"
  ELSE IF score >= 70 THEN "B"
  ELSE IF score >= 60 THEN "C"
  ELSE IF score >= 50 THEN "D"
  ELSE "F"

----------------------------------------------------------------------------
(* URLValidator.                                                           *)
(* A URL string is a sequence of tokens: an optional scheme ("http://",    *)
(* "https://", possibly upper-case in the raw input), an optional "www."   *)
(* label and a host: a dotted IPv4 literal, a name, or text that no URL    *)
(* parser accepts as a host.                                               *)

SchemeTok(name, upper) == [kind |-> "scheme", name |-> name, upper |-> upper]
WwwTok == [kind |-> "www"]
IPv4Tok(octets) == [kind |-> "ipv4", octets |-> octets]
NameTok(name) == [kind |-> "name", name |-> name]
BadHostTok == [kind |-> "bad"]        \* e.g. "exa mple" : not parseable as a host

Https == SchemeTok("https", FALSE)
Http == SchemeTok("http", FALSE)

\* String.prototype.toLowerCase
ToLowerCase(text) ==
  [i \in DOMAIN text |->
     IF text[i].kind = "scheme" THEN SchemeTok(text[i].name, FALSE) ELSE text[i]]

\* String.prototype.startsWith for the prefixes the validator tests
StartsWith(text, tok) == text # <<>> /\ text[1] = tok

\* _cleanInput: throws for a missing, empty or non-string input
cleanInput(input) ==
  IF input.kind # "string" \/ (input.text = <<>> /\ ~input.padded)
  THEN [threw |-> TRUE, message |-> "URL e obrigatoria"]
  ELSE [threw |-> FALSE, value |-> ToLowerCase(input.text)]   \* trim().toLowerCase()

generateUrlVariations_NoHttpsFirst(cleanUrl) ==
  IF StartsWith(cleanUrl, Http) \/ StartsWith(cleanUrl, Https)
  THEN IF StartsWith(cleanUrl, Http)
       THEN <<cleanUrl, <<Https>> \o Tail(cleanUrl)>>
       ELSE <<cleanUrl>>
  ELSE <<<<Http>> \o cleanUrl, <<Https>> \o cleanUrl>>
       \o (IF ~StartsWith(cleanUrl, WwwTok)
           THEN <<<<Http, WwwTok>> \o cleanUrl, <<Https, WwwTok>> \o cleanUrl>>
           ELSE <<>>)

\* _generateUrlVariations
generateUrlVariations(cleanUrl) ==
  IF StartsWith(cleanUrl, Http) \/ StartsWith(cleanUrl, Https)
  THEN IF StartsWith(cleanUrl, Http)
       THEN <<<<Https>> \o Tail(cleanUrl), cleanUrl>>    \* unshift of the replace()
       ELSE <<cleanUrl>>
  ELSE <<<<Https>> \o cleanUrl, <<Http>> \o cleanUrl>>
       \o (IF ~StartsWith(cleanUrl, WwwTok)
           THEN <<<<Https, WwwTok>> \o cleanUrl, <<Http, WwwTok>> \o cleanUrl>>
           ELSE <<>>)

\* new URL(testUrl) for a candidate (it always starts with a scheme token).
\* The host parser rejects an empty host, unparseable text, an IPv4 literal
\* with an octet above 255 and a host whose last label is a number but
\* which is no IPv4 literal ("www.192.168.1.1").
ParseUrl(testUrl) ==
  LET rest == Tail(testUrl)
      host == rest[Len(rest)]
      ok == /\ rest # <<>>
            /\ \A i \in DOMAIN rest : rest[i].kind # "scheme"
            /\ \/ rest = <<WwwTok>>
               \/ /\ host.kind = "name"
               \/ /\ host.kind = "ipv4"
                  /\ Len(rest) = 1
                  /\ \A k \in 1..4 : host.octets[k] \in 0..255
  IN IF ok
     THEN [ok |-> TRUE, protocol |-> testUrl[1].name, hostname |-> rest]
     ELSE [ok |-> FALSE]

\* REGEX.IPV4.test(hostname)
MatchesIPv4(hostname) == Len(hostname) = 1 /\ hostname[1].kind = "ipv4"

\* names used as hosts, and whether domainRegex accepts them
HostNames == {"example.com", "localhost", "ex_ample.com"}
MatchesDomainRegex(hostname) ==
  /\ hostname[Len(hostname)].kind = "name"
  /\ hostname[Len(hostname)].name \in {"example.com", "localhost"}

\* _isIP (an IPv6 literal is not among the modelled hosts)
isIP(hostname) == MatchesIPv4(hostname)

\* _isValidHostname
isValidHostname(hostname) == isIP(hostname) \/ MatchesDomainRegex(hostname)

isPrivateIP_NoLoopback(hostname) ==
  IF ~MatchesIPv4(hostname) THEN FALSE
  ELSE LET parts == hostname[1].octets
       IN \/ parts[1] = 10
          \/ (parts[1] = 172 /\ parts[2] >= 16 /\ parts[2] <= 31)
          \/ (parts[1] = 192 /\ parts[2] = 168)
          \/ parts[1] = 0

\* _isPrivateIP
isPrivateIP(hostname) ==
  IF ~MatchesIPv4(hostname) THEN FALSE
  ELSE LET parts == hostname[1].octets
       IN \/ parts[1] = 10
          \/ (parts[1] = 172 /\ parts[2] >= 16 /\ parts[2] <= 31)
          \/ (parts[1] = 192 /\ parts[2] = 168)
          \/ parts[1] = 127
          \/ parts[1] = 0

PrivateIpError == "IPs privados nao sao permitidos"

\* _validateSingleUrl; dnsAnswer is what _resolveDNS does for this candidate:
\* "resolved", "ENOTFOUND" (lookup rejects) or "timeout" (the 5 s timer wins)
validateSingleUrl(testUrl, dnsAnswer) ==
  LET parsedUrl == ParseUrl(testUrl)
  IN IF ~parsedUrl.ok THEN [isValid |-> FALSE, errors |-> <<"URL malformada">>]
     ELSE
       LET hostname == parsedUrl.hostname
           e1 == IF parsedUrl.protocol \notin {"http", "https"}
                 THEN <<"Protocolo deve ser HTTP ou HTTPS">> ELSE <<>>
           e2 == IF hostname = <<>> THEN <<"Hostname invalido">> ELSE <<>>
           e3 == IF hostname # <<>> /\ ~isValidHostname(hostname)
                 THEN <<"Formato do hostname invalido">> ELSE <<>>
           e4 == IF isPrivateIP(hostname) THEN <<PrivateIpError>> ELSE <<>>
           e5 == IF dnsAnswer # "resolved"
                 THEN <<"DNS nao resolve: " \o dnsAnswer>> ELSE <<>>
           errors == e1 \o e2 \o e3 \o e4 \o e5
       IN IF Len(errors) > 0
          THEN [isValid |-> FALSE, errors |-> errors]
          ELSE [isValid |-> TRUE,
                url |-> testUrl,
                normalizedUrl |-> <<testUrl[1]>> \o hostname,
                protocol |-> parsedUrl.protocol,
                hostname |-> hostname,
                port |-> IF parsedUrl.protocol = "https" THEN 443 ELSE 80,
                metadata |-> [hasWww |-> StartsWith(hostname, WwwTok),
                              isIP |-> isIP(hostname),
                              defaultPort |-> TRUE]]

\* _generateSuggestions, on what the tokens say about the text: a host token
\* and "www." contain a dot, and the modelled names with ".com" contain ".co"
generateSuggestions(input) ==
  LET hasDot == \E i \in DOMAIN input : input[i].kind \in {"www", "ipv4", "name"}
                                        /\ (input[i].kind = "name" => input[i].name # "localhost")
      hasDotCo == \E i \in DOMAIN input : input[i].kind = "name"
                                          /\ input[i].name \in {"example.com", "ex_ample.com"}
      tlds == IF ~hasDot THEN <<"append .com", "append .org", "append .net">> ELSE <<>>
      www == IF ~StartsWith(input, WwwTok) /\ hasDot THEN <<"prepend www.">> ELSE <<>>
      typo == IF hasDotCo THEN <<"replace .co by .com">> ELSE <<>>
  IN tlds \o www \o typo

\* the for loop of validateAndNormalize (lines 30-48) from candidate i on
RECURSIVE validateEach(_, _, _, _)
validateEach(urlVariations, answers, i, validationErrors) ==
  IF i > Len(urlVariations)
  THEN [validatedUrl |-> None, validationErrors |-> validationErrors, calls |-> i - 1]
  ELSE LET result == validateSingleUrl(urlVariations[i], answers[i])
       IN IF result.isValid
          THEN [validatedUrl |-> result, validationErrors |-> validationErrors, calls |-> i]
          ELSE validateEach(urlVariations, answers, i + 1,
                            Append(validationErrors,
                                   [url |-> urlVariations[i], errors |-> result.errors]))

validateAndNormalize_NoCatch(inputUrl, answers) ==
  LET cleaned == cleanInput(inputUrl)
  IN IF cleaned.threw
     THEN [raised |-> TRUE, message |-> cleaned.message, calls |-> <<>>]
     ELSE
       LET urlVariations == generateUrlVariations(cleaned.value)
           loop == validateEach(urlVariations, answers, 1, <<>>)
           v == loop.validatedUrl
       IN IF v = None
          THEN [isValid |-> FALSE, errors |-> loop.validationErrors,
                suggestions |-> generateSuggestions(cleaned.value),
                calls |-> SubSeq(urlVariations, 1, loop.calls)]
          ELSE [isValid |-> TRUE, url |-> v.url, normalizedUrl |-> v.normalizedUrl,
                protocol |-> v.protocol, hostname |-> v.hostname, port |-> v.port,
                isHttps |-> v.protocol = "https", metadata |-> v.metadata,
                calls |-> SubSeq(urlVariations, 1, loop.calls)]

\* validateAndNormalize.  The field calls is not part of the returned value:
\* it lists the candidates handed to _validateSingleUrl, in call order.
validateAndNormalize(inputUrl, answers) ==
  LET cleaned == cleanInput(inputUrl)
  IN IF cleaned.threw
     THEN [isValid |-> FALSE, errors |-> <<"Erro interno na validacao da URL">>,
           suggestions |-> <<>>, calls |-> <<>>]
     ELSE
       LET urlVariations == generateUrlVariations(cleaned.value)
           loop == validateEach(urlVariations, answers, 1, <<>>)
           v == loop.validatedUrl
       IN IF v = None
          THEN [isValid |-> FALSE, errors |-> loop.validationErrors,
                suggestions |-> generateSuggestions(cleaned.value),
                calls |-> SubSeq(urlVariations, 1, loop.calls)]
          ELSE [isValid |-> TRUE, url |-> v.url, normalizedUrl |-> v.normalizedUrl,
                protocol |-> v.protocol, hostname |-> v.hostname, port |-> v.port,
                isHttps |-> v.protocol = "https", metadata |-> v.metadata,
                calls |-> SubSeq(urlVariations, 1, loop.calls)]

\* the value validateAndNormalize returns, without the call log
Returned(run) == [f \in DOMAIN run \ {"calls"} |-> run[f]]

----------------------------------------------------------------------------
(* HttpClient: get and _makeRequestWithRetry.                              *)
(* An answer of the network to one axios.get call is a response with a     *)
(* status, or a request error with a code and no response.                 *)

MaxRetries == 3          \* default of the parameter maxRetries
DelayUnit == 1000        \* this._delay(attempt * 1000)

ResponseAnswer(status) == [kind |-> "response", status |-> status]
ErrorAnswer(code) == [kind |-> "error", code |-> code]

\* config.validateStatus: the client's default accepts every status below
\* 600; options passed to get() may replace it (axios' own default is 2xx)
validateStatus(cfg, status) ==
  IF cfg.validateStatus = "below600" THEN status < 600
  ELSE status >= 200 /\ status < 300

\* does axios.get resolve on this answer
Resolves(cfg, answer) ==
  answer.kind = "response" /\ validateStatus(cfg, answer.status)

\* the error axios.get rejects with on this answer
AxiosError(answer) ==
  IF answer.kind = "response"
  THEN [message |-> "Request failed with status code",
        response |-> [status |-> answer.status]]
  ELSE [message |-> answer.code, code |-> answer.code, request |-> TRUE]

isNonRetryableError_No4xxCheck(error) == FALSE

\* _isNonRetryableError
isNonRetryableError(error) ==
  IF "response" \notin DOMAIN error THEN FALSE
  ELSE LET status == error.response.status
       IN status >= 400 /\ status < 500 /\ status \notin {408, 429}

\* error.message.toLowerCase().includes(word) on the messages of the errors
\* axios.get rejects with (a message that is just the error code holds none
\* of the words _handleRequestError looks for)
LowerMessageIncludes(message, word) ==
  CASE word = "getaddrinfo" -> message \in {"getaddrinfo ENOTFOUND", "getaddrinfo EAI_AGAIN"}
    [] word = "timeout" -> message \in {"timeout of 15000ms exceeded",
                                        "TLS handshake timeout"}
    [] word = "certificate" -> message = "certificate has expired"
    [] word = "ssl" -> message = "write EPROTO SSL routines"
    [] word = "tls" -> message = "TLS handshake timeout"
    [] OTHER -> FALSE

\* _handleRequestError: the category and severity it sets
requestErrorKind(code, message) ==
  IF code = "ENOTFOUND" \/ LowerMessageIncludes(message, "getaddrinfo")
  THEN [category |-> "dns", severity |-> "error"]
  ELSE IF code = "ECONNREFUSED"
  THEN [category |-> "connection", severity |-> "error"]
  ELSE IF code = "ETIMEDOUT" \/ LowerMessageIncludes(message, "timeout")
  THEN [category |-> "timeout", severity |-> "warning"]
  ELSE IF code = "ECONNRESET"
  THEN [category |-> "connection", severity |-> "error"]
  ELSE IF \/ LowerMessageIncludes(message, "certificate")
          \/ LowerMessageIncludes(message, "ssl")
          \/ LowerMessageIncludes(message, "tls")
  THEN [category |-> "ssl", severity |-> "error"]
  ELSE [category |-> "network", severity |-> "error"]

\* errorHandler.processNetworkError with _handleHttpError,
\* _handleRequestError and _handleGenericError: the fields that do not
\* depend on message tables
processNetworkError(error, u) ==
  LET processedError == [originalError |-> error.message, url |-> u,
                         category |-> "network", severity |-> "error"]
  IN IF "response" \in DOMAIN error
     THEN LET status == error.response.status
          IN [originalError |-> processedError.originalError,
              url |-> u,
              type |-> "http_response",
              status |-> status,
              category |-> IF status >= 400 /\ status < 500 THEN "client_error"
                           ELSE IF status >= 500 THEN "server_error"
                           ELSE processedError.category,
              severity |-> IF status >= 400 /\ status < 500 /\ status = 404
                           THEN "warning" ELSE "error"]
     ELSE IF "request" \in DOMAIN error
     THEN LET kind == requestErrorKind(error.code, error.message)
          IN [originalError |-> processedError.originalError,
              url |-> u,
              type |-> "network",
              code |-> error.code,
              category |-> kind.category,
              severity |-> kind.severity]
     ELSE [originalError |-> processedError.originalError,
           url |-> u,
           type |-> "generic",
           category |-> "application",
           severity |-> "error"]

\* isRecoverableError
isRecoverableError(error) ==
  IF error.category = "timeout" \/ error.category = "connection" THEN TRUE
  ELSE IF "status" \in DOMAIN error /\ error.status # 0
          /\ error.status \in {408, 429, 502, 503, 504}
  THEN TRUE
  ELSE FALSE

\* _extractCookies
extractCookies(headers) ==
  IF "set-cookie" \notin DOMAIN headers THEN <<>> ELSE headers["set-cookie"]

\* _processResponse (the fields the analysis reads)
processResponse(status, target, originalUrl) ==
  [status |-> status,
   headers |-> target.headers,
   data |-> target.body,
   url |-> originalUrl,
   finalUrl |-> originalUrl,
   cookies |-> extractCookies(target.headers)]

\* the URL get() is called with
FetchUrl == IF urlValidation = None THEN <<Https, NameTok("example.com")>>
            ELSE urlValidation.url

\* { ...this.defaultConfig, ...options }
MergeConfig(defaults, options) ==
  [k \in DOMAIN defaults |-> IF k \in DOMAIN options THEN options[k] ELSE defaults[k]]

DefaultConfig == [validateStatus |-> "below600"]
NoOptions == [o \in {} |-> o]

\* httpClient.get(url, options) up to the first axios.get call; before the
\* call config holds the options, afterwards the merged configuration
Get ==
  /\ pc = "fetch"
  /\ config' = MergeConfig(DefaultConfig, config)
  /\ attempt' = 1
  /\ lastError' = None
  /\ waited' = 0
  /\ wire' = <<>>
  /\ pc' = "request"
  /\ UNCHANGED <<tlsVars, repeatVars, url, dns, urlValidation, tried, site, httpResponse,
                 raised, tasks, analysis, res, gradeScore, grades, handshakeVars>>

\* await this._delay(attempt * 1000), attempt > 1
Delay ==
  /\ pc = "delay"
  /\ waited' = attempt * DelayUnit
  /\ pc' = "request"
  /\ UNCHANGED <<tlsVars, repeatVars, url, dns, urlValidation, tried, attempt, lastError, config, site,
                 wire, httpResponse, raised, tasks, analysis, res, gradeScore, grades,
                 handshakeVars>>

\* axios.get resolves: _makeRequestWithRetry returns and get() processes
RequestSucceeds ==
  /\ pc = "request"
  /\ \E status \in site.statuses :
       /\ Resolves(config, ResponseAnswer(status))
       /\ wire' = Append(wire, [attempt |-> attempt, waited |-> waited,
                                answer |-> ResponseAnswer(status)])
       /\ httpResponse' = processResponse(status, site, FetchUrl)
  /\ pc' = "fetched"
  /\ UNCHANGED <<tlsVars, repeatVars, url, dns, urlValidation, tried, attempt, lastError, waited, config,
                 site, raised, tasks, analysis, res, gradeScore, grades, handshakeVars>>

\* axios.get rejects: the catch block, then either the next iteration or
\* the end of the loop, `throw lastError` and the catch block of get()
RequestFails ==
  /\ pc = "request"
  /\ \E answer \in {ErrorAnswer(c) : c \in site.failures}
                   \cup {ResponseAnswer(st) : st \in site.statuses} :
       /\ ~Resolves(config, answer)
       /\ wire' = Append(wire, [attempt |-> attempt, waited |-> waited,
                                answer |-> answer])
       /\ lastError' = AxiosError(answer)
  /\ IF isNonRetryableError(lastError') \/ attempt + 1 > MaxRetries
     THEN /\ raised' = lastError'          \* throw lastError
          /\ pc' = "thrown"
          /\ attempt' = attempt
     ELSE /\ attempt' = attempt + 1
          /\ pc' = "delay"
          /\ raised' = raised
  /\ UNCHANGED <<tlsVars, repeatVars, url, dns, urlValidation, tried, waited, config, site,
                 httpResponse, tasks, analysis, res, gradeScore, grades, handshakeVars>>

----------------------------------------------------------------------------
(* HeaderAnalyzer.                                                         *)
(* Response headers are a function from lower-case header names (as the    *)
(* HTTP client delivers them) to values.  The value of a security header   *)
(* is represented by the sub-score _analyzeSpecificHeader gives it.        *)

\* SECURITY_HEADERS in declaration order; key is headerName.toLowerCase()
SECURITY_HEADERS ==
  << [name |-> "Content-Security-Policy", key |-> "content-security-policy",
      severity |-> "critical", weight |-> 15],
     [name |-> "Strict-Transport-Security", key |-> "strict-transport-security",
      severity |-> "critical", weight |-> 15],
     [name |-> "X-Frame-Options", key |-> "x-frame-options",
      severity |-> "high", weight |-> 10],
     [name |-> "X-Content-Type-Options", key |-> "x-content-type-options",
      severity |-> "high", weight |-> 10],
     [name |-> "Referrer-Policy", key |-> "referrer-policy",
      severity |-> "medium", weight |-> 5],
     [name |-> "Permissions-Policy", key |-> "permissions-policy",
      severity |-> "medium", weight |-> 5],
     [name |-> "X-XSS-Protection", key |-> "x-xss-protection",
      severity |-> "medium", weight |-> 5],
     [name |-> "Expect-CT", key |-> "expect-ct",
      severity |-> "low", weight |-> 3],
     [name |-> "Cache-Control", key |-> "cache-control",
      severity |-> "medium", weight |-> 5],
     [name |-> "Pragma", key |-> "pragma",
      severity |-> "low", weight |-> 3] >>

\* url.includes(site) for the major sites of _isOptionalHeader
UrlIncludes(u, hostName) ==
  \E i \in DOMAIN u : u[i].kind = "name" /\ u[i].name = hostName

\* _isOptionalHeader
isOptionalHeader(headerName, u) ==
  LET majorSites == {"google.com", "facebook.com", "microsoft.com", "amazon.com",
                     "apple.com"}
      isMajorSite == \E m \in majorSites : UrlIncludes(u, m)
  IN IF isMajorSite THEN headerName \in {"X-XSS-Protection", "X-Frame-Options"}
     ELSE headerName \in {"Permissions-Policy", "Referrer-Policy"}

\* _calculateSecurityScore with a base score for HTTPS that alone reaches the
\* maximum
calculateSecurityScore_HttpsBaseIsMaximum(a, tieUp) ==
  LET totalWeight == SumSeq([i \in DOMAIN SECURITY_HEADERS |-> SECURITY_HEADERS[i].weight])
      base == IF StartsWith(a.url, Https) THEN 100 * totalWeight + 3000 ELSE 0
      PresentPoints(h) ==
        IF h.name \in Range(a.present) /\ h.name \in DOMAIN a.details
        THEN LET detail == a.details[h.name]
                 headerScore == IF detail.score = 0 THEN 50 ELSE detail.score
             IN headerScore * h.weight
        ELSE 0
      MissingPenalty(h) ==
        IF h.name \notin Range(a.missing) \/ isOptionalHeader(h.name, a.url) THEN 0
        ELSE IF h.severity = "critical" THEN h.weight * 30
        ELSE IF h.severity = "high" THEN h.weight * 20
        ELSE IF h.severity = "medium" THEN h.weight * 10
        ELSE 0
      score100 == base
                  + SumSeq([i \in DOMAIN SECURITY_HEADERS |-> PresentPoints(SECURITY_HEADERS[i])])
                  - SumSeq([i \in DOMAIN SECURITY_HEADERS |-> MissingPenalty(SECURITY_HEADERS[i])])
      normalized == Max(0, Min(100 * totalWeight, score100))
  IN MathRound(normalized, totalWeight, tieUp)

\* _calculateSecurityScore.  score is kept in hundredths, so that
\* (score / totalWeight) * 100 is score100 / totalWeight.
calculateSecurityScore(a, tieUp) ==
  LET totalWeight == SumSeq([i \in DOMAIN SECURITY_HEADERS |-> SECURITY_HEADERS[i].weight])
      base == IF StartsWith(a.url, Https) THEN 3000 ELSE 0
      PresentPoints(h) ==
        IF h.name \in Range(a.present) /\ h.name \in DOMAIN a.details
        THEN LET detail == a.details[h.name]
                 headerScore == IF detail.score = 0 THEN 50 ELSE detail.score
             IN headerScore * h.weight
        ELSE 0
      MissingPenalty(h) ==
        IF h.name \notin Range(a.missing) \/ isOptionalHeader(h.name, a.url) THEN 0
        ELSE IF h.severity = "critical" THEN h.weight * 30
        ELSE IF h.severity = "high" THEN h.weight * 20
        ELSE IF h.severity = "medium" THEN h.weight * 10
        ELSE 0
      score100 == base
                  + SumSeq([i \in DOMAIN SECURITY_HEADERS |-> PresentPoints(SECURITY_HEADERS[i])])
                  - SumSeq([i \in DOMAIN SECURITY_HEADERS |-> MissingPenalty(SECURITY_HEADERS[i])])
      normalized == Max(0, Min(100 * totalWeight, score100))
  IN MathRound(normalized, totalWeight, tieUp)

\* HeaderAnalyzer._generateRecommendations (recommendations of the
\* per-header details are not part of the modelled header values)
headerRecommendations(a) ==
  LET criticalMissing ==
        SelectSeq(SECURITY_HEADERS,
                  LAMBDA h : h.name \in Range(a.missing) /\ h.severity = "critical")
      first == IF Len(criticalMissing) > 0
               THEN <<"CRITICO: Implemente os headers">> ELSE <<>>
      general == IF a.score < 50 THEN <<"Configuracao de seguranca inadequada">>
                 ELSE IF a.score < 70 THEN <<"Configuracao de seguranca precisa de melhorias">>
                 ELSE IF a.score < 90 THEN <<"Boa configuracao de seguranca">>
                 ELSE <<>>
  IN Dedup(first \o general)

\* _parseHSTSParams.  The header value is the sequence of its parts after
\* split(';'), trim() and toLowerCase(): [name |-> "max-age", seconds |-> n]
\* for 'max-age=n', [name |-> "includesubdomains"], [name |-> "preload"], or
\* another name; a later max-age part overwrites an earlier one.
parseHSTSParams(hstsValue) ==
  LET maxAgeParts == SelectSeq(hstsValue, LAMBDA part : part.name = "max-age")
  IN [maxAge |-> IF maxAgeParts = <<>> THEN 0
                 ELSE maxAgeParts[Len(maxAgeParts)].seconds,
      includeSubDomains |-> \E i \in DOMAIN hstsValue :
                              hstsValue[i].name = "includesubdomains",
      preload |-> \E i \in DOMAIN hstsValue : hstsValue[i].name = "preload"]

\* _analyzeHSTS
analyzeHSTS(value) ==
  LET hstsParams == parseHSTSParams(value)
  IN [isConfigured |-> TRUE, params |-> hstsParams,
      vulnerabilities |->
        IF hstsParams.maxAge = 0 \/ hstsParams.maxAge < 31536000
        THEN <<Finding("hsts_short_max_age", "medium")>> ELSE <<>>,
      score |-> 60 + (IF hstsParams.includeSubDomains THEN 20 ELSE 0)
                   + (IF hstsParams.preload THEN 20 ELSE 0)]

\* _analyzeSpecificHeader: a Strict-Transport-Security value given by its
\* parts is analysed by _analyzeHSTS; any other header value is
\* represented by the sub-score its analysis gives it
analyzeSpecificHeader(headerName, headerValue) ==
  IF headerName = "Strict-Transport-Security" /\ "parts" \in DOMAIN headerValue
  THEN analyzeHSTS(headerValue.parts)
  ELSE [score |-> headerValue.subScore]

\* analyzeHeaders
analyzeHeaders(headers, u, tieUp) ==
  LET presentEntries == SelectSeq(SECURITY_HEADERS, LAMBDA h : h.key \in DOMAIN headers)
      missingEntries == SelectSeq(SECURITY_HEADERS, LAMBDA h : h.key \notin DOMAIN headers)
      present == [i \in DOMAIN presentEntries |-> presentEntries[i].name]
      missing == [i \in DOMAIN missingEntries |-> missingEntries[i].name]
      details == [n \in Range(present) |->
                    analyzeSpecificHeader(
                      n, headers[(CHOOSE h \in Range(SECURITY_HEADERS) : h.name = n).key])]
      vulnerabilities ==
        [i \in DOMAIN missingEntries |->
           [type |-> "missing_header", header |-> missingEntries[i].name,
            severity |-> missingEntries[i].severity, weight |-> missingEntries[i].weight]]
      draft == [url |-> u, present |-> present, missing |-> missing,
                details |-> details, vulnerabilities |-> vulnerabilities]
      score == calculateSecurityScore(draft, tieUp)
      scored == [url |-> u, score |-> score, grade |-> HeaderCalculateGrade(score),
                 present |-> present, missing |-> missing, details |-> details,
                 vulnerabilities |-> vulnerabilities]
  IN [url |-> u, score |-> score, grade |-> scored.grade,
      present |-> present, missing |-> missing, details |-> details,
      vulnerabilities |-> vulnerabilities,
      recommendations |-> headerRecommendations(scored)]

----------------------------------------------------------------------------
(* CookieAnalyzer.                                                         *)
(* A parsed Set-Cookie entry is [name, secure, httpOnly, sameSite, maxAge,  *)
(* domain, path, value]: sameSite is "" when the attribute is absent,      *)
(* maxAge is in seconds and 0 when the cookie has neither Max-Age nor      *)
(* Expires, domain is None or [dot, labels] (leading dot, number of        *)
(* labels), path is "" when absent, value is the kind of the value text.   *)

COOKIE_SECURITY_maxAge == 86400000     \* COOKIE_SECURITY.maxAge, milliseconds

CookieNames == {"sessionid", "AuthToken", "PHPSESSID", "theme", "_ga"}

\* _isSensitiveCookie on the modelled names: "sessionid" matches /session/i
\* and the dangerous name "session", "AuthToken" matches /auth/i and
\* /token/i; "PHPSESSID", "theme" and "_ga" match no pattern
isSensitiveCookie(name) == name \in {"sessionid", "AuthToken"}

\* _isTrackingCookie on the modelled names
isTrackingCookie(name) == name = "_ga"

\* String.prototype.toLowerCase on the modelled SameSite values
SameSiteToLowerCase(text) ==
  IF text \in {"None", "none", "NONE"} THEN "none"
  ELSE IF text \in {"Lax", "lax"} THEN "lax"
  ELSE IF text \in {"Strict", "strict"} THEN "strict"
  ELSE text

\* the kinds of cookie value: "encoded" (a long base64 text), "plain" (a
\* short word), "markup" (a short text with < or &), "huge" (more than 4096
\* alphanumeric characters)
isEncodedValue(value) == value \in {"encoded", "huge"}
ValueLengthOver4096(value) == value = "huge"
ValueHasSuspiciousCharacters(value) == value = "markup"

\* _calculateCookieDuration, milliseconds
calculateCookieDuration(cookie) == IF cookie.maxAge # 0 THEN cookie.maxAge * 1000 ELSE 0

analyzeSingleCookie_SecureAlwaysHigh(cookie) ==
  LET isSensitive == isSensitiveCookie(cookie.name)
      hasSameSite == cookie.sameSite # ""
      isPersistent == cookie.maxAge # 0
      path == IF cookie.path = "" THEN "/" ELSE cookie.path
      v1 == IF ~cookie.secure
            THEN <<Finding("missing_secure_flag", "high")>>
            ELSE <<>>
      v2 == IF ~cookie.httpOnly
            THEN <<Finding("missing_httponly_flag",
                           IF isSensitive THEN "high" ELSE "medium")>>
            ELSE <<>>
      v3 == IF ~hasSameSite THEN <<Finding("missing_samesite", "medium")>>
            ELSE IF SameSiteToLowerCase(cookie.sameSite) = "none" /\ ~cookie.secure
            THEN <<Finding("samesite_none_without_secure", "high")>>
            ELSE <<>>
      v4 == IF isPersistent /\ calculateCookieDuration(cookie) > COOKIE_SECURITY_maxAge
            THEN <<Finding("excessive_cookie_lifetime", "medium")>> ELSE <<>>
      v5 == (IF ~isEncodedValue(cookie.value) /\ isSensitive
             THEN <<Finding("unencoded_sensitive_cookie", "medium")>> ELSE <<>>)
            \o (IF ValueLengthOver4096(cookie.value)
                THEN <<Finding("oversized_cookie", "low")>> ELSE <<>>)
            \o (IF ValueHasSuspiciousCharacters(cookie.value)
                THEN <<Finding("suspicious_characters", "low")>> ELSE <<>>)
      v6 == (IF cookie.domain # None /\ cookie.domain.labels <= 2
             THEN <<Finding("overly_broad_domain", "low")>> ELSE <<>>)
            \o (IF path = "/" /\ isSensitive
                THEN <<Finding("broad_path_sensitive_cookie", "medium")>> ELSE <<>>)
  IN [name |-> cookie.name, secure |-> cookie.secure, httpOnly |-> cookie.httpOnly,
      sameSite |-> hasSameSite, isSession |-> ~isPersistent, isPersistent |-> isPersistent,
      isSensitive |-> isSensitive,
      vulnerabilities |-> v1 \o v2 \o v3 \o v4 \o v5 \o v6]

analyzeSingleCookie_CaseSensitiveNone(cookie) ==
  LET isSensitive == isSensitiveCookie(cookie.name)
      hasSameSite == cookie.sameSite # ""
      isPersistent == cookie.maxAge # 0
      path == IF cookie.path = "" THEN "/" ELSE cookie.path
      v1 == IF ~cookie.secure
            THEN <<Finding("missing_secure_flag",
                           IF isSensitive THEN "critical" ELSE "high")>>
            ELSE <<>>
      v2 == IF ~cookie.httpOnly
            THEN <<Finding("missing_httponly_flag",
                           IF isSensitive THEN "high" ELSE "medium")>>
            ELSE <<>>
      v3 == IF ~hasSameSite THEN <<Finding("missing_samesite", "medium")>>
            ELSE IF cookie.sameSite = "none" /\ ~cookie.secure
            THEN <<Finding("samesite_none_without_secure", "high")>>
            ELSE <<>>
      v4 == IF isPersistent /\ calculateCookieDuration(cookie) > COOKIE_SECURITY_maxAge
            THEN <<Finding("excessive_cookie_lifetime", "medium")>> ELSE <<>>
      v5 == (IF ~isEncodedValue(cookie.value) /\ isSensitive
             THEN <<Finding("unencoded_sensitive_cookie", "medium")>> ELSE <<>>)
            \o (IF ValueLengthOver4096(cookie.value)
                THEN <<Finding("oversized_cookie", "low")>> ELSE <<>>)
            \o (IF ValueHasSuspiciousCharacters(cookie.value)
                THEN <<Finding("suspicious_characters", "low")>> ELSE <<>>)
      v6 == (IF cookie.domain # None /\ cookie.domain.labels <= 2
             THEN <<Finding("overly_broad_domain", "low")>> ELSE <<>>)
            \o (IF path = "/" /\ isSensitive
                THEN <<Finding("broad_path_sensitive_cookie", "medium")>> ELSE <<>>)
  IN [name |-> cookie.name, secure |-> cookie.secure, httpOnly |-> cookie.httpOnly,
      sameSite |-> hasSameSite, isSession |-> ~isPersistent, isPersistent |-> isPersistent,
      isSensitive |-> isSensitive,
      vulnerabilities |-> v1 \o v2 \o v3 \o v4 \o v5 \o v6]

\* _analyzeSingleCookie with _analyzeCookieValue and _analyzeCookieScope;
\* the findings are in the order the code pushes them
analyzeSingleCookie(cookie) ==
  LET isSensitive == isSensitiveCookie(cookie.name)
      hasSameSite == cookie.sameSite # ""              \* cookie.sameSite || null
      isPersistent == cookie.maxAge # 0
      path == IF cookie.path = "" THEN "/" ELSE cookie.path     \* cookie.path || '/'
      v1 == IF ~cookie.secure
            THEN <<Finding("missing_secure_flag",
                           IF isSensitive THEN "critical" ELSE "high")>>
            ELSE <<>>
      v2 == IF ~cookie.httpOnly
            THEN <<Finding("missing_httponly_flag",
                           IF isSensitive THEN "high" ELSE "medium")>>
            ELSE <<>>
      v3 == IF ~hasSameSite THEN <<Finding("missing_samesite", "medium")>>
            ELSE IF SameSiteToLowerCase(cookie.sameSite) = "none" /\ ~cookie.secure
            THEN <<Finding("samesite_none_without_secure", "high")>>
            ELSE <<>>
      v4 == IF isPersistent /\ calculateCookieDuration(cookie) > COOKIE_SECURITY_maxAge
            THEN <<Finding("excessive_cookie_lifetime", "medium")>> ELSE <<>>
      v5 == (IF ~isEncodedValue(cookie.value) /\ isSensitive
             THEN <<Finding("unencoded_sensitive_cookie", "medium")>> ELSE <<>>)
            \o (IF ValueLengthOver4096(cookie.value)
                THEN <<Finding("oversized_cookie", "low")>> ELSE <<>>)
            \o (IF ValueHasSuspiciousCharacters(cookie.value)
                THEN <<Finding("suspicious_characters", "low")>> ELSE <<>>)
      v6 == (IF cookie.domain # None /\ cookie.domain.labels <= 2
             THEN <<Finding("overly_broad_domain", "low")>> ELSE <<>>)
            \o (IF path = "/" /\ isSensitive
                THEN <<Finding("broad_path_sensitive_cookie", "medium")>> ELSE <<>>)
  IN [name |-> cookie.name, secure |-> cookie.secure, httpOnly |-> cookie.httpOnly,
      sameSite |-> hasSameSite, isSession |-> ~isPersistent, isPersistent |-> isPersistent,
      isSensitive |-> isSensitive,
      vulnerabilities |-> v1 \o v2 \o v3 \o v4 \o v5 \o v6]

\* _analyzeOverallCookiePatterns: the findings it appends
overallCookiePatterns(cookies) ==
  LET n == Len(cookies)
      secure == CountWhere(cookies, LAMBDA c : c.secure)
      httpOnly == CountWhere(cookies, LAMBDA c : c.httpOnly)
      session == CountWhere(cookies, LAMBDA c : c.isSession)
      persistent == CountWhere(cookies, LAMBDA c : c.isPersistent)
      tracking == CountWhere(cookies, LAMBDA c : isTrackingCookie(c.name))
  IN (IF n > 10 THEN <<Finding("excessive_cookies", "low")>> ELSE <<>>)
     \o (IF 10 * secure < 8 * n
         THEN <<Finding("low_secure_cookie_ratio", "high")>> ELSE <<>>)
     \o (IF 10 * httpOnly < 6 * n
         THEN <<Finding("low_httponly_ratio", "medium")>> ELSE <<>>)
     \o (IF session = 0 /\ persistent > 0
         THEN <<Finding("no_session_cookies", "low")>> ELSE <<>>)
     \o (IF tracking > 0
         THEN <<Finding("tracking_cookies_detected", "info")>> ELSE <<>>)

\* the penalty of one finding in _calculateCookieScore
CookiePenalty(v) ==
  IF v.severity = "critical" THEN 25
  ELSE IF v.severity = "high" THEN 15
  ELSE IF v.severity = "medium" THEN 10
  ELSE IF v.severity = "low" THEN 5
  ELSE IF v.severity = "info" THEN 2
  ELSE 0

\* _calculateCookieScore; the score is kept as a multiple of 1/cookies.length
calculateCookieScore(a, tieUp) ==
  IF ~a.hasCookies THEN 100
  ELSE LET n == Len(a.cookies)
           penalties == SumSeq([i \in DOMAIN a.vulnerabilities |->
                                  CookiePenalty(a.vulnerabilities[i])])
           scoreN == (100 - penalties) * n + 10 * a.summary.secure
                     + 10 * a.summary.httpOnly + 5 * a.summary.sameSite
       IN Max(0, Min(100, MathRound(scoreN, n, tieUp)))

\* CookieAnalyzer._generateRecommendations
cookieRecommendations(a) ==
  LET criticalVulns == CountWhere(a.vulnerabilities, IsCritical)
  IN Dedup(
       (IF criticalVulns > 0 THEN <<"CRITICO: Corrija os problemas dos cookies">> ELSE <<>>)
       \o (IF a.score < 50 THEN <<"Configuracao de cookies inadequada">>
           ELSE IF a.score < 70 THEN <<"Configuracao de cookies precisa de melhorias">>
           ELSE IF a.score < 90 THEN <<"Boa configuracao de cookies">>
           ELSE <<>>)
       \o (IF a.summary.secure < a.count
           THEN <<"Adicione a flag Secure a todos os cookies">> ELSE <<>>)
       \o (IF 10 * a.summary.httpOnly < 8 * a.count
           THEN <<"Adicione a flag HttpOnly">> ELSE <<>>)
       \o (IF 2 * a.summary.sameSite < a.count
           THEN <<"Configure o atributo SameSite">> ELSE <<>>))

\* analyzeCookies
analyzeCookies(cookieHeaders, u, tieUp) ==
  IF cookieHeaders = Undefined \/ Len(cookieHeaders) = 0   \* !cookieHeaders || length === 0
  THEN [url |-> u, hasCookies |-> FALSE, count |-> 0, score |-> 100, grade |-> "A",
        message |-> "Nenhum cookie encontrado",
        recommendation |-> "Se o site usar autenticacao, considere implementar cookies seguros"]
  ELSE LET cookies == [i \in DOMAIN cookieHeaders |-> analyzeSingleCookie(cookieHeaders[i])]
           summary == [secure |-> CountWhere(cookies, LAMBDA c : c.secure),
                       httpOnly |-> CountWhere(cookies, LAMBDA c : c.httpOnly),
                       sameSite |-> CountWhere(cookies, LAMBDA c : c.sameSite)]
           vulnerabilities ==
             Flatten([i \in DOMAIN cookies |-> cookies[i].vulnerabilities])
             \o overallCookiePatterns(cookies)
           draft == [hasCookies |-> TRUE, count |-> Len(cookies), cookies |-> cookies,
                     vulnerabilities |-> vulnerabilities, summary |-> summary]
           score == calculateCookieScore(draft, tieUp)
           scored == [hasCookies |-> TRUE, count |-> Len(cookies), cookies |-> cookies,
                      vulnerabilities |-> vulnerabilities, summary |-> summary,
                      score |-> score]
       IN [url |-> u, hasCookies |-> TRUE, count |-> Len(cookies), cookies |-> cookies,
           vulnerabilities |-> vulnerabilities, summary |-> summary,
           score |-> score, grade |-> CookieCalculateGrade(score),
           recommendations |-> cookieRecommendations(scored)]

----------------------------------------------------------------------------
(* SSLAnalyzer.                                                            *)
(* What the TLS probes of a site give is [path, ...]: path "detailed" when *)
(* _getSSLInfo resolves (with the protocol string and the component       *)
(* analyses of certificate and cipher), "simple" when it rejects and the   *)
(* HEAD probe of _performSimpleSSLCheck ends as socket says.               *)

\* the characters of the strings tlsSocket.getProtocol() gives
ProtocolChars(protocol) ==
  CASE protocol = "TLSv1.3" -> <<"T", "L", "S", "v", "1", ".", "3">>
    [] protocol = "TLSv1.2" -> <<"T", "L", "S", "v", "1", ".", "2">>
    [] protocol = "TLSv1.1" -> <<"T", "L", "S", "v", "1", ".", "1">>
    [] protocol = "TLSv1" -> <<"T", "L", "S", "v", "1">>
    [] protocol = "SSLv3" -> <<"S", "S", "L", "v", "3">>
    [] protocol = "unknown" -> <<"u", "n", "k", "n", "o", "w", "n">>
    [] OTHER -> <<>>

\* protocol.toLowerCase() on the characters above
ProtocolToLowerCase(chars) ==
  [i \in DOMAIN chars |->
     CASE chars[i] = "T" -> "t" [] chars[i] = "L" -> "l" [] chars[i] = "S" -> "s"
       [] OTHER -> chars[i]]

\* String.prototype.includes
Includes(chars, needle) ==
  \E i \in 0..(Len(chars) - Len(needle)) :
    \A j \in DOMAIN needle : chars[i + j] = needle[j]

\* _analyzeProtocol
analyzeProtocol(protocol) ==
  IF protocol = ""
  THEN [version |-> protocol, isSecure |-> FALSE,
        vulnerabilities |-> <<Finding("no_protocol", "critical")>>]
  ELSE LET version == ProtocolToLowerCase(ProtocolChars(protocol))
       IN IF Includes(version, <<"t", "l", "s", "v", "1", ".", "3">>)
          THEN [version |-> protocol, isSecure |-> TRUE, vulnerabilities |-> <<>>,
                grade |-> "A+"]
          ELSE IF Includes(version, <<"t", "l", "s", "v", "1", ".", "2">>)
          THEN [version |-> protocol, isSecure |-> TRUE, vulnerabilities |-> <<>>,
                grade |-> "A"]
          ELSE IF Includes(version, <<"t", "l", "s", "v", "1", ".", "1">>)
          THEN [version |-> protocol, isSecure |-> FALSE,
                vulnerabilities |-> <<Finding("deprecated_protocol", "medium")>>,
                grade |-> "B"]
          ELSE IF Includes(version, <<"t", "l", "s", "v", "1", ".", "0">>)
                  \/ Includes(version, <<"s", "s", "l", "v">>)
          THEN [version |-> protocol, isSecure |-> FALSE,
                vulnerabilities |-> <<Finding("insecure_protocol", "critical")>>,
                grade |-> "F"]
          ELSE [version |-> protocol, isSecure |-> FALSE, vulnerabilities |-> <<>>]

\* the penalty of a top-level finding in _calculateSSLScore
SslPenalty(v) ==
  IF v.severity = "critical" THEN 25
  ELSE IF v.severity = "high" THEN 15
  ELSE IF v.severity = "medium" THEN 8
  ELSE IF v.severity = "low" THEN 3
  ELSE IF v.severity = "warning" THEN 2
  ELSE 0

\* ... of a certificate finding
CertPenalty(v) ==
  IF v.severity = "critical" THEN 20
  ELSE IF v.severity = "high" THEN 12
  ELSE IF v.severity = "medium" THEN 6
  ELSE IF v.severity = "warning" THEN 2
  ELSE 0

\* ... of a protocol or cipher finding
ComponentPenalty(v) ==
  IF v.severity = "critical" THEN 20
  ELSE IF v.severity = "high" THEN 12
  ELSE IF v.severity = "medium" THEN 6
  ELSE 0

\* _calculateSSLScore
calculateSSLScore(a) ==
  LET start == IF ~a.isValid THEN 30 ELSE 100
      top == SumSeq([i \in DOMAIN a.vulnerabilities |-> SslPenalty(a.vulnerabilities[i])])
      cert == SumSeq([i \in DOMAIN a.certificate.vulnerabilities |->
                        CertPenalty(a.certificate.vulnerabilities[i])])
      proto == SumSeq([i \in DOMAIN a.protocol.vulnerabilities |->
                         ComponentPenalty(a.protocol.vulnerabilities[i])])
      ciph == SumSeq([i \in DOMAIN a.cipher.vulnerabilities |->
                        ComponentPenalty(a.cipher.vulnerabilities[i])])
      bonus13 == IF Includes(ProtocolChars(a.protocol.version), <<"1", ".", "3">>)
                 THEN 5 ELSE 0
      bonusBits == IF a.cipher.bits >= 256 THEN 3 ELSE 0
  IN Max(0, Min(100, start - top - cert - proto - ciph + bonus13 + bonusBits))

\* SSLAnalyzer._generateRecommendations
sslRecommendations(a) ==
  (IF a.score < 70 THEN <<"Configuracao SSL necessita melhorias urgentes">> ELSE <<>>)
  \o (IF ~a.isValid THEN <<"Corrija os problemas de certificado">> ELSE <<>>)
  \o (IF a.protocol.version \notin {"TLSv1.2", "TLSv1.3"}
      THEN <<"Atualize para TLS 1.2 ou superior">> ELSE <<>>)
  \o (IF a.cipher.bits < 256 THEN <<"Use ciphers com pelo menos 256 bits">> ELSE <<>>)

\* _analyzeSSLInfo
analyzeSSLInfo(sslInfo) ==
  LET vulnerabilities ==
        IF ~sslInfo.authorized /\ sslInfo.authorizationError
        THEN <<Finding("authorization", "critical")>> ELSE <<>>
      protocol == analyzeProtocol(sslInfo.protocol)
      draft == [isValid |-> sslInfo.authorized, certificate |-> sslInfo.certificate,
                protocol |-> protocol, cipher |-> sslInfo.cipher,
                vulnerabilities |-> vulnerabilities]
      score == calculateSSLScore(draft)
      scored == [isValid |-> sslInfo.authorized, certificate |-> sslInfo.certificate,
                 protocol |-> protocol, cipher |-> sslInfo.cipher,
                 vulnerabilities |-> vulnerabilities, score |-> score]
  IN [isValid |-> sslInfo.authorized, certificate |-> sslInfo.certificate,
      protocol |-> protocol, cipher |-> sslInfo.cipher,
      vulnerabilities |-> vulnerabilities, score |-> score,
      recommendations |-> sslRecommendations(scored)]

\* _performSimpleSSLCheck: the value it resolves with
performSimpleSSLCheck(socket) ==
  IF socket = "authorized"
  THEN [isValid |-> TRUE, isSecure |-> TRUE, method |-> "simple_check", score |-> 70,
        vulnerabilities |-> <<>>,
        recommendations |-> <<"Certificado SSL valido encontrado">>]
  ELSE IF socket = "unauthorized"
  THEN [isValid |-> FALSE, isSecure |-> TRUE, method |-> "simple_check", score |-> 30,
        vulnerabilities |-> <<Finding("ssl_validation_failed", "high")>>,
        recommendations |-> <<"Corrija os problemas do certificado SSL">>]
  ELSE IF socket = "unknown"
  THEN [isValid |-> FALSE, isSecure |-> FALSE, method |-> "simple_check", score |-> 20,
        vulnerabilities |-> <<Finding("ssl_check_failed", "medium")>>,
        recommendations |-> <<"Verifique manualmente o certificado SSL">>]
  ELSE IF socket = "error"
  THEN [isValid |-> FALSE, isSecure |-> FALSE, method |-> "simple_check", score |-> 0,
        vulnerabilities |-> <<Finding("ssl_connection_failed", "critical")>>,
        recommendations |-> <<"Verifique se o site suporta HTTPS",
                              "Servidor pode ter problemas de configuracao SSL">>]
  ELSE [isValid |-> FALSE, isSecure |-> FALSE, method |-> "simple_check", score |-> 10,
        vulnerabilities |-> <<Finding("ssl_timeout", "medium")>>,
        recommendations |-> <<"Tente novamente em alguns minutos">>]

\* the value analyzeSSL resolves with for an https URL
analyzeSSL(tls) ==
  IF tls.path = "detailed" THEN analyzeSSLInfo(tls)
  ELSE performSimpleSSLCheck(tls.socket)

\* AnalysisController._analyzeSSL for a URL that is not https
NonHttpsSSL ==
  [isSecure |-> FALSE, reason |-> "URL nao usa HTTPS", score |-> 0,
   recommendations |-> <<"Use HTTPS para proteger a comunicacao">>]

----------------------------------------------------------------------------
(* AnalysisController._analyzeHTML.                                        *)
(* A page is [forms, scripts, hasCharset]: a form is [hasPasswordField,    *)
(* method] with method already lower-cased and defaulted to "get"; a       *)
(* script is the kind of its src attribute.                                *)

\* src.startsWith('/'), src.startsWith(url), src.startsWith('https://'),
\* src.startsWith('http://') for the modelled kinds of src
SrcStartsWithSlash(src) == src = "/local.js"
SrcStartsWithUrl(src, u) ==
  \/ src = "https://self/app.js" /\ StartsWith(u, Https)
  \/ src = "http://self/app.js" /\ StartsWith(u, Http)
SrcIsHttps(src) == src \in {"https://self/app.js", "https://cdn/lib.js"}
SrcIsHttp(src) == src \in {"http://self/app.js", "http://cdn/lib.js"}

\* _analyzeHTML with a score that is not taken below 0
analyzeHTML_ClampsAtZero(htmlContent, u) ==
  LET isHttpsUrl == StartsWith(u, Https)
      FormVulns(form) ==
        (IF form.hasPasswordField /\ ~isHttpsUrl
         THEN <<Finding("form_password_no_https", "critical")>> ELSE <<>>)
        \o (IF form.hasPasswordField /\ form.method = "get"
            THEN <<Finding("password_in_get", "critical")>> ELSE <<>>)
      ScriptVulns(src) ==
        LET isExternal == ~SrcStartsWithSlash(src) /\ ~SrcStartsWithUrl(src, u)
        IN IF isExternal /\ ~SrcIsHttps(src) /\ SrcIsHttp(src)
           THEN <<Finding("script_http_external", "high")>> ELSE <<>>
      formVulns == Flatten([i \in DOMAIN htmlContent.forms |-> FormVulns(htmlContent.forms[i])])
      scriptVulns == Flatten([i \in DOMAIN htmlContent.scripts |->
                                ScriptVulns(htmlContent.scripts[i])])
      metaVulns == IF ~htmlContent.hasCharset
                   THEN <<Finding("missing_charset", "low")>> ELSE <<>>
      vulnerabilities == formVulns \o scriptVulns \o metaVulns
      Penalty(v) == IF v.type = "form_password_no_https" THEN 20
                    ELSE IF v.type = "password_in_get" THEN 25
                    ELSE IF v.type = "script_http_external" THEN 15
                    ELSE 5
  IN [url |-> u,
      vulnerabilities |-> vulnerabilities,
      recommendations |-> <<>>,
      forms |-> htmlContent.forms,
      scripts |-> htmlContent.scripts,
      score |-> Max(0, 80 - SumSeq([i \in DOMAIN vulnerabilities |->
                                      Penalty(vulnerabilities[i])]))]

\* _analyzeHTML
analyzeHTML(htmlContent, u) ==
  LET isHttpsUrl == StartsWith(u, Https)
      FormVulns(form) ==
        (IF form.hasPasswordField /\ ~isHttpsUrl
         THEN <<Finding("form_password_no_https", "critical")>> ELSE <<>>)
        \o (IF form.hasPasswordField /\ form.method = "get"
            THEN <<Finding("password_in_get", "critical")>> ELSE <<>>)
      ScriptVulns(src) ==
        LET isExternal == ~SrcStartsWithSlash(src) /\ ~SrcStartsWithUrl(src, u)
        IN IF isExternal /\ ~SrcIsHttps(src) /\ SrcIsHttp(src)
           THEN <<Finding("script_http_external", "high")>> ELSE <<>>
      formVulns == Flatten([i \in DOMAIN htmlContent.forms |-> FormVulns(htmlContent.forms[i])])
      scriptVulns == Flatten([i \in DOMAIN htmlContent.scripts |->
                                ScriptVulns(htmlContent.scripts[i])])
      metaVulns == IF ~htmlContent.hasCharset
                   THEN <<Finding("missing_charset", "low")>> ELSE <<>>
      vulnerabilities == formVulns \o scriptVulns \o metaVulns
      Penalty(v) == IF v.type = "form_password_no_https" THEN 20
                    ELSE IF v.type = "password_in_get" THEN 25
                    ELSE IF v.type = "script_http_external" THEN 15
                    ELSE 5
  IN [url |-> u,
      vulnerabilities |-> vulnerabilities,
      recommendations |-> <<>>,
      forms |-> htmlContent.forms,
      scripts |-> htmlContent.scripts,
      score |-> 80 - SumSeq([i \in DOMAIN vulnerabilities |-> Penalty(vulnerabilities[i])])]

----------------------------------------------------------------------------
(* AnalysisController.analyzeUrl *)

Pending == [status |-> "pending"]
Fulfilled(value) == [status |-> "fulfilled", value |-> value]
Rejected(category) ==
  [status |-> "rejected", reason |-> [message |-> category \o " analyzer failed"]]

processSettledResult_NoFinding(settledResult, category) ==
  IF settledResult.status = "fulfilled" THEN settledResult.value
  ELSE [error |-> TRUE,
        category |-> category,
        message |-> "Erro na analise de " \o category,
        score |-> 0,
        vulnerabilities |-> <<>>]

\* _processSettledResult
processSettledResult(settledResult, category) ==
  IF settledResult.status = "fulfilled" THEN settledResult.value
  ELSE [error |-> TRUE,
        category |-> category,
        message |-> "Erro na analise de " \o category,
        score |-> 0,
        vulnerabilities |->
          <<[type |-> "analysis_error", severity |-> "error",
             message |-> "Falha na analise de " \o category \o ": "
                         \o settledResult.reason.message]>>]

\* _consolidateAnalysis
consolidateAnalysis(a) ==
  LET vulnerabilities == VulnsOrEmpty(a.ssl) \o VulnsOrEmpty(a.headers)
                         \o VulnsOrEmpty(a.cookies) \o VulnsOrEmpty(a.html)
      recommendations == Dedup(RecsOrEmpty(a.ssl) \o RecsOrEmpty(a.headers)
                               \o RecsOrEmpty(a.cookies) \o RecsOrEmpty(a.html))
      WithSeverity(sev) == CountWhere(vulnerabilities, LAMBDA v : v.severity = sev)
      stats == [totalVulnerabilities |-> Len(vulnerabilities),
                criticalVulnerabilities |-> WithSeverity("critical"),
                highVulnerabilities |-> WithSeverity("high"),
                mediumVulnerabilities |-> WithSeverity("medium"),
                lowVulnerabilities |-> WithSeverity("low"),
                scores |-> [ssl |-> ScoreOrZero(a.ssl), headers |-> ScoreOrZero(a.headers),
                            cookies |-> ScoreOrZero(a.cookies), html |-> ScoreOrZero(a.html)]]
  IN [url |-> a.url, originalUrl |-> a.originalUrl, httpStatus |-> a.httpStatus,
      isHttps |-> a.isHttps, finalUrl |-> a.finalUrl,
      ssl |-> a.ssl, headers |-> a.headers, cookies |-> a.cookies, html |-> a.html,
      vulnerabilities |-> vulnerabilities, recommendations |-> recommendations,
      score |-> a.score, grade |-> a.grade, stats |-> stats]

\* `!url` of the handler
Falsy(input) ==
  input.kind = "missing" \/ (input.kind = "string" /\ input.text = <<>> /\ ~input.padded)

AllSettled(t) ==
  \A c \in {"ssl", "headers", "cookies", "html"} : t[c].status # "pending"

AnalyzeUrl_IgnoresInvalid ==
  /\ pc = "start"
  /\ IF Falsy(url)
     THEN /\ res' = [status |-> 400, code |-> "MISSING_URL"]
          /\ pc' = "responded"
          /\ UNCHANGED <<urlValidation, tried, handshakeVars>>
     ELSE LET run == validateAndNormalize(url, dns)
          IN /\ urlValidation' = Returned(run)
             /\ tried' = run.calls
             /\ res' = res
             /\ pc' = "fetch"
  /\ UNCHANGED <<tlsVars, repeatVars, url, dns, attempt, lastError, waited, config, site, wire,
                 httpResponse, raised, tasks, analysis, gradeScore, grades,
                 handshakeVars>>

\* lines 384-419: the handler up to the call of httpClient.get
AnalyzeUrl ==
  /\ pc = "start"
  /\ IF Falsy(url)
     THEN /\ res' = [status |-> 400, code |-> "MISSING_URL"]
          /\ pc' = "responded"
          /\ UNCHANGED <<urlValidation, tried, handshakeVars>>
     ELSE LET run == validateAndNormalize(url, dns)
          IN /\ urlValidation' = Returned(run)
             /\ tried' = run.calls
             /\ IF ~run.isValid
                THEN /\ res' = [status |-> 400, code |-> "INVALID_URL",
                                details |-> run.errors, suggestions |-> run.suggestions]
                     /\ pc' = "responded"
                ELSE /\ res' = res
                     /\ pc' = "fetch"
  /\ UNCHANGED <<tlsVars, repeatVars, url, dns, attempt, lastError, waited, config, site, wire,
                 httpResponse, raised, tasks, analysis, gradeScore, grades,
                 handshakeVars>>

\* lines 420-462: the status checks, then the four analyzer calls.  The
\* header, cookie and HTML analyzers contain no await, so their promises are
\* settled when the calls return; so is the SSL promise of a non-https URL.
\* An analyzer that throws gives a rejected promise.
StartAnalyzers ==
  /\ pc = "fetched"
  /\ IF httpResponse.status = 429
     THEN /\ res' = [status |-> 429, code |-> "RATE_LIMITED"]
          /\ pc' = "responded"
          /\ tasks' = tasks
     ELSE IF httpResponse.status >= 500
     THEN /\ res' = [status |-> 500, code |-> "SERVER_ERROR"]
          /\ pc' = "responded"
          /\ tasks' = tasks
     ELSE IF httpResponse.status >= 400
     THEN /\ res' = [status |-> 400, code |-> "HTTP_ERROR"]
          /\ pc' = "responded"
          /\ tasks' = tasks
     ELSE /\ \E throwing \in SUBSET {"headers", "cookies", "html"}, tieH, tieC \in BOOLEAN :
               LET validatedUrl == urlValidation.url
               IN tasks' =
                    [ssl |-> IF ~urlValidation.isHttps THEN Fulfilled(NonHttpsSSL)
                             ELSE Pending,
                     headers |-> IF "headers" \in throwing THEN Rejected("Headers")
                                 ELSE Fulfilled(analyzeHeaders(httpResponse.headers,
                                                               validatedUrl, tieH)),
                     cookies |-> IF "cookies" \in throwing THEN Rejected("Cookies")
                                 ELSE Fulfilled(analyzeCookies(httpResponse.cookies,
                                                               validatedUrl, tieC)),
                     html |-> IF "html" \in throwing THEN Rejected("HTML")
                              ELSE Fulfilled(analyzeHTML(httpResponse.data, validatedUrl))]
          /\ pc' = "settling"
          /\ res' = res
  /\ UNCHANGED <<tlsVars, repeatVars, url, dns, urlValidation, tried, attempt, lastError, waited, config,
                 site, wire, httpResponse, raised, analysis, gradeScore, grades,
                 handshakeVars>>

\* sslAnalyzer.analyzeSSL settles: it catches every error of its probes,
\* so the promise is always fulfilled
SSLSettles ==
  /\ pc = "settling"
  /\ tasks.ssl.status = "pending"
  /\ tasks' = [tasks EXCEPT !.ssl = Fulfilled(analyzeSSL(site.tls))]
  /\ UNCHANGED <<tlsVars, repeatVars, pc, url, dns, urlValidation, tried, attempt, lastError, waited, config,
                 site, wire, httpResponse, raised, analysis, res, gradeScore, grades,
                 handshakeVars>>

\* await Promise.allSettled(analysisPromises) with the results in the order
\* in which the analyzers settled (finished) instead of the order of the array
allSettled_CompletionOrder(promises) ==
  [i \in 1..4 |-> promises[finished[i]]]

\* await Promise.allSettled(analysisPromises): the settled results in the
\* order of the array, whatever the order in which the promises settled
allSettled(promises) ==
  <<promises.ssl, promises.headers, promises.cookies, promises.html>>

\* lines 465-490: the analysis object built from the four settled results,
\* consolidated, scored and graded
buildAnalysis(results, validation, originalUrl, response, tieUp) ==
  LET initial == [url |-> validation.url,
                  originalUrl |-> originalUrl,
                  httpStatus |-> response.status,
                  isHttps |-> validation.isHttps,
                  finalUrl |-> response.finalUrl,
                  ssl |-> processSettledResult(results[1], "SSL"),
                  headers |-> processSettledResult(results[2], "Headers"),
                  cookies |-> processSettledResult(results[3], "Cookies"),
                  html |-> processSettledResult(results[4], "HTML"),
                  vulnerabilities |-> <<>>,
                  recommendations |-> <<>>,
                  score |-> 0,
                  grade |-> "F"]
      consolidated == consolidateAnalysis(initial)
      score == calculateOverallScore(consolidated, tieUp)
  IN [consolidated EXCEPT !.score = score, !.grade = ControllerCalculateGrade(score)]

\* lines 465-514: Promise.allSettled has resolved; the report is built,
\* scored, graded and sent
BuildReport ==
  /\ pc = "settling"
  /\ AllSettled(tasks)
  /\ \E tieUp \in BOOLEAN :
       analysis' = buildAnalysis(allSettled(tasks), urlValidation, url, httpResponse, tieUp)
  /\ res' = [status |-> 200, code |-> "OK"]
  /\ pc' = "responded"
  /\ UNCHANGED <<tlsVars, repeatVars, url, dns, urlValidation, tried, attempt, lastError, waited, config,
                 site, wire, httpResponse, raised, tasks, gradeScore, grades,
                 handshakeVars>>

\* lines 516-537: the catch block, reached when httpClient.get throws the
\* processed error
HandlerCatch ==
  /\ pc = "thrown"
  /\ LET error == processNetworkError(raised, urlValidation.url)
     IN res' = [status |-> 500, code |-> "ANALYSIS_ERROR", error |-> error]
  /\ pc' = "responded"
  /\ UNCHANGED <<tlsVars, repeatVars, url, dns, urlValidation, tried, attempt, lastError, waited, config,
                 site, wire, httpResponse, raised, tasks, analysis, gradeScore, grades,
                 handshakeVars>>

----------------------------------------------------------------------------
(* Values of the variables a specification does not use *)

IdleValidator == url = None /\ dns = None /\ urlValidation = None /\ tried = <<>>
IdleFetch == attempt = 0 /\ lastError = None /\ waited = 0 /\ config = NoOptions
             /\ site = None /\ wire = <<>> /\ httpResponse = None /\ raised = None
IdleAnalysis == tasks = None /\ analysis = None /\ res = None
IdleGrade == gradeScore = 0 /\ grades = None
IdleTls == probes = <<>> /\ walk = None
IdleRepeat == runs = <<>> /\ finished = <<>> /\ halfUp = None
IdleHandshake ==
  tlsSocket = None /\ timeoutId = None /\ sslInfoPromise = None /\ fired = <<>>

----------------------------------------------------------------------------
(* SpecScore: _calculateOverallScore and _calculateGrade over bounded      *)
(* consolidated analyses, including category results without a score and   *)
(* with scores outside 0..100.                                             *)

ScoreInputs == {-20, 0, 1, 41, 70, 100, 130}

CategoryInputs == {[error |-> TRUE]} \cup {[score |-> s] : s \in ScoreInputs}

FindingList(nCritical, nOther) ==
  [i \in 1..(nCritical + nOther) |->
     IF i <= nCritical THEN Finding("finding", "critical")
     ELSE Finding("finding", "high")]

ScoreInit ==
  /\ pc = "consolidated"
  /\ analysis \in
       {[ssl |-> s, headers |-> h, cookies |-> c, html |-> m,
         vulnerabilities |-> FindingList(nc, no), isHttps |-> https,
         score |-> 0, grade |-> "F"] :
          s \in CategoryInputs, h \in CategoryInputs, c \in CategoryInputs,
          m \in CategoryInputs, nc \in 0..MaxCritical, no \in 0..MaxOther,
          https \in BOOLEAN}
  /\ IdleValidator /\ IdleFetch /\ IdleGrade /\ IdleTls /\ IdleRepeat
  /\ IdleHandshake
  /\ tasks = None /\ res = None

\* analyzeUrl, lines 489-490
ScoreAnalysis ==
  /\ pc = "consolidated"
  /\ \E tieUp \in BOOLEAN :
       LET s == calculateOverallScore(analysis, tieUp)
       IN analysis' = [analysis EXCEPT !.score = s,
                                       !.grade = ControllerCalculateGrade(s)]
  /\ pc' = "scored"
  /\ UNCHANGED <<tlsVars, repeatVars, url, dns, urlValidation, tried, attempt, lastError, waited, config,
                 site, wire, httpResponse, raised, tasks, res, gradeScore, grades,
                 handshakeVars>>

ScoreNext == ScoreAnalysis

SpecScore == ScoreInit /\ [][ScoreNext]_vars

----------------------------------------------------------------------------
(* SpecGrade: the three _calculateGrade functions on one score *)

GradeScores == -5..105

GradeInit ==
  /\ pc = "grade"
  /\ gradeScore \in GradeScores
  /\ grades = None
  /\ IdleValidator /\ IdleFetch /\ IdleAnalysis /\ IdleTls /\ IdleRepeat
  /\ IdleHandshake

ApplyGrades ==
  /\ pc = "grade"
  /\ grades' = [controller |-> ControllerCalculateGrade(gradeScore),
                headers |-> HeaderCalculateGrade(gradeScore),
                cookies |-> CookieCalculateGrade(gradeScore)]
  /\ pc' = "graded"
  /\ UNCHANGED <<tlsVars, repeatVars, url, dns, urlValidation, tried, attempt, lastError, waited, config,
                 site, wire, httpResponse, raised, tasks, analysis, res, gradeScore,
                 handshakeVars>>

GradeNext == ApplyGrades

SpecGrade == GradeInit /\ [][GradeNext]_vars

----------------------------------------------------------------------------
(* SpecValidate: validateAndNormalize over bounded inputs and DNS answers *)

FirstOctets == {0, 8, 10, 127, 172, 192}
SecondOctets == {0, 15, 16, 31, 32, 168}

HostToks ==
  {IPv4Tok(<<a, b, 1, 1>>) : a \in FirstOctets, b \in SecondOctets}
  \cup {IPv4Tok(<<0, 0, 0, 0>>), IPv4Tok(<<300, 1, 1, 1>>)}
  \cup {NameTok(n) : n \in HostNames}
  \cup {BadHostTok}

Texts ==
  {s \o w \o h :
     s \in {<<>>, <<Http>>, <<Https>>, <<SchemeTok("http", TRUE)>>},
     w \in {<<>>, <<WwwTok>>},
     h \in {<<>>} \cup {<<t>> : t \in HostToks}}

ValidatorInputs ==
  {[kind |-> "missing"], [kind |-> "nonstring"]}
  \cup {[kind |-> "string", padded |-> p, text |-> t] : p \in BOOLEAN, t \in Texts}

DnsAnswers == {"resolved", "ENOTFOUND", "timeout"}

ValidateInit ==
  /\ pc = "validate"
  /\ url \in ValidatorInputs
  /\ dns \in [1..4 -> DnsAnswers]
  /\ urlValidation = None
  /\ tried = <<>>
  /\ IdleFetch /\ IdleAnalysis /\ IdleGrade /\ IdleTls /\ IdleRepeat
  /\ IdleHandshake

\* a call of urlValidator.validateAndNormalize(url)
Validate ==
  /\ pc = "validate"
  /\ LET run == validateAndNormalize(url, dns)
     IN /\ urlValidation' = Returned(run)
        /\ tried' = run.calls
  /\ pc' = "validated"
  /\ UNCHANGED <<tlsVars, repeatVars, url, dns, attempt, lastError, waited, config, site, wire,
                 httpResponse, raised, tasks, analysis, res, gradeScore, grades,
                 handshakeVars>>

ValidateNext == Validate

SpecValidate == ValidateInit /\ [][ValidateNext]_vars

----------------------------------------------------------------------------
(* Claims about the URL validator *)

IsPrefix(s, t) == Len(s) <= Len(t) /\ SubSeq(t, 1, Len(s)) = s

\* the input is a string that _cleanInput accepts
CleanableInput == url.kind = "string" /\ (url.text # <<>> \/ url.padded)
CleanText == ToLowerCase(url.text)

\* the ranges the claim C8 lists
ListedPrivate(o) ==
  \/ o[1] = 10
  \/ (o[1] = 172 /\ o[2] \in 16..31)
  \/ (o[1] = 192 /\ o[2] = 168)
  \/ o[1] = 127
  \/ o = <<0, 0, 0, 0>>

InputHasListedPrivateHost ==
  /\ CleanableInput
  /\ Len(CleanText) >= 1
  /\ CleanText[Len(CleanText)].kind = "ipv4"
  /\ \A i \in 1..(Len(CleanText) - 1) : CleanText[i].kind = "scheme"
  /\ ListedPrivate(CleanText[Len(CleanText)].octets)

InputIsHttpLocalhost ==
  CleanableInput /\ CleanText = <<Http, NameTok("localhost")>>

\* C8 (as stated, the rejection itself): an input whose host is an IPv4
\* literal in 10.x, 172.16-31.x, 192.168.x, 127.x or 0.0.0.0, and the input
\* http://localhost, are rejected whatever DNS answers.
C8_Original_PrivateAndLocalhostRejected ==
  (pc = "validated" /\ (InputHasListedPrivateHost \/ InputIsHttpLocalhost))
     => ~urlValidation.isValid

\* the order of candidates the claim C9 gives
C9_StatedOrder(clean) ==
  IF StartsWith(clean, Http) THEN <<<<Https>> \o Tail(clean), clean>>
  ELSE IF StartsWith(clean, Https) THEN <<clean>>
  ELSE <<<<Https>> \o clean, <<Http>> \o clean,
         <<Https, WwwTok>> \o clean, <<Http, WwwTok>> \o clean>>

\* ... and the order with the "www." exception
C9_AmendedOrder(clean) ==
  IF StartsWith(clean, Http) \/ StartsWith(clean, Https) \/ ~StartsWith(clean, WwwTok)
  THEN C9_StatedOrder(clean)
  ELSE <<<<Https>> \o clean, <<Http>> \o clean>>

\* a scheme-less, well-formed, public host
PlainPublicHost(clean) ==
  \/ clean = <<NameTok("example.com")>>
  \/ clean = <<IPv4Tok(<<8, 0, 1, 1>>)>>

C9_FirstPassingInOrder(order) ==
  /\ IsPrefix(tried, order)
  /\ \A i \in 1..Len(tried) :
       (i < Len(tried) \/ ~urlValidation.isValid)
          => ~validateSingleUrl(tried[i], dns[i]).isValid
  /\ urlValidation.isValid =>
       /\ urlValidation.url = tried[Len(tried)]
       /\ validateSingleUrl(tried[Len(tried)], dns[Len(tried)]).isValid
  /\ ~urlValidation.isValid => tried = order
  /\ (PlainPublicHost(CleanText) /\ dns[1] = "resolved") =>
       /\ urlValidation.isValid
       /\ urlValidation.url = <<Https>> \o CleanText
       /\ urlValidation.isHttps

\* C9 as stated: scheme-less X is tried as https://X, http://X,
\* https://www.X, http://www.X.
C9_Original_FourCandidates ==
  (pc = "validated" /\ CleanableInput) => C9_FirstPassingInOrder(C9_StatedOrder(CleanText))

\* C9 (amended): candidates are tried HTTPS-first and the first one that
\* passes every check is returned; scheme-less X not starting with "www."
\* is tried as https://X, http://X, https://www.X, http://www.X, scheme-less
\* X starting with "www." only as https://X, http://X, and http://X as
\* https://X, http://X; a later candidate is returned only if every earlier
\* one failed, and a scheme-less well-formed public host whose DNS resolves
\* yields https://host with isHttps = true.
C9_HttpsFirstOrder ==
  (pc = "validated" /\ CleanableInput) => C9_FirstPassingInOrder(C9_AmendedOrder(CleanText))

C9_Witness ==
  /\ pc = "validated"
  /\ url.kind = "string"
  /\ url.text = <<NameTok("example.com")>>
  /\ dns = <<"ENOTFOUND", "timeout", "ENOTFOUND", "resolved">>
  /\ urlValidation.isValid
  /\ urlValidation.url = <<Http, WwwTok, NameTok("example.com")>>
  /\ Len(tried) = 4

C10_WitnessMissing ==
  pc = "validated" /\ url.kind = "missing" /\ ~urlValidation.isValid

----------------------------------------------------------------------------
(* SpecFetch: one httpClient.get call, with the default configuration and  *)
(* with options that restore axios' validateStatus, against every answer   *)
(* of the network.                                                         *)

EmptyBody == [forms |-> <<>>, scripts |-> <<>>, hasCharset |-> TRUE]

AllStatuses == {200, 404, 408, 429, 503, 999}
AllFailures == {"ENOTFOUND", "ECONNREFUSED", "ECONNRESET", "ETIMEDOUT"}

Options == {NoOptions, [validateStatus |-> "2xx"]}

FetchInit ==
  /\ pc = "fetch"
  /\ config \in Options
  /\ site = [statuses |-> AllStatuses, failures |-> AllFailures,
             headers |-> [h \in {} |-> <<>>], body |-> EmptyBody, tls |-> None]
  /\ attempt = 0 /\ lastError = None /\ waited = 0 /\ wire = <<>>
  /\ httpResponse = None /\ raised = None
  /\ IdleValidator /\ IdleAnalysis /\ IdleGrade /\ IdleTls /\ IdleRepeat
  /\ IdleHandshake

FetchNext == Get \/ Delay \/ RequestSucceeds \/ RequestFails

SpecFetch == FetchInit /\ [][FetchNext]_vars

----------------------------------------------------------------------------
(* Claims about the fetch *)

\* the attempt failed: axios.get rejected
FailedCall(call) ==
  \/ call.answer.kind = "error"
  \/ /\ config.validateStatus = "below600" /\ call.answer.status >= 600
  \/ /\ config.validateStatus = "2xx"
     /\ (call.answer.status < 200 \/ call.answer.status >= 300)

\* the attempt failed with a 4xx response other than 408 and 429
Failed4xx(call) ==
  /\ FailedCall(call)
  /\ call.answer.kind = "response"
  /\ call.answer.status \in 400..499
  /\ call.answer.status \notin {408, 429}

\* C5: a fetch makes at most 3 attempts, one after another; attempt k >= 2
\* follows a failed attempt k-1 and a delay of k seconds; no attempt
\* follows a success, nor a failure that is a 4xx response other than 408
\* or 429; when the loop ends without success the error raised is the
\* error of the last attempt made.
C5_RetryDiscipline ==
  /\ Len(wire) <= 3
  /\ \A k \in DOMAIN wire : wire[k].attempt = k
  /\ \A k \in 2..Len(wire) :
       /\ wire[k].waited = k * 1000
       /\ FailedCall(wire[k - 1])
       /\ ~Failed4xx(wire[k - 1])
  /\ pc \in {"delay", "request"} /\ wire # <<>> =>
       /\ FailedCall(wire[Len(wire)])
       /\ ~Failed4xx(wire[Len(wire)])
       /\ Len(wire) < 3
  /\ pc = "thrown" =>
       /\ wire # <<>>
       /\ FailedCall(wire[Len(wire)])
       /\ raised = AxiosError(wire[Len(wire)].answer)
       /\ (Len(wire) = 3 \/ Failed4xx(wire[Len(wire)]))
  /\ pc = "fetched" => ~FailedCall(wire[Len(wire)])

C5_Witness ==
  /\ pc = "thrown"
  /\ Len(wire) = 3
  /\ wire[1].answer = ErrorAnswer("ENOTFOUND")
  /\ wire[2].answer = ResponseAnswer(429)
  /\ wire[3].answer = ErrorAnswer("ETIMEDOUT")
  /\ wire[3].waited = 3000

C5_Witness4xx ==
  /\ pc = "thrown"
  /\ Len(wire) = 2
  /\ wire[2].answer = ResponseAnswer(404)

----------------------------------------------------------------------------
(* Spec: one request to analyzeUrl, from the raw input to the response.    *)

FormKinds == {[hasPasswordField |-> TRUE, method |-> "get"],
              [hasPasswordField |-> TRUE, method |-> "post"],
              [hasPasswordField |-> FALSE, method |-> "get"]}

ScriptKinds == {"/local.js", "http://cdn/lib.js"}

\* pages with up to MaxForms forms of one kind and up to MaxScripts scripts
\* of one kind
Bodies ==
  {[forms |-> [i \in 1..n |-> f], scripts |-> [i \in 1..m |-> sc], hasCharset |-> c] :
     n \in 0..MaxForms, f \in FormKinds, m \in 0..MaxScripts, sc \in ScriptKinds,
     c \in BOOLEAN}

NoHeaders == [h \in {} |-> h]
AllHeaders == [k \in {SECURITY_HEADERS[i].key : i \in DOMAIN SECURITY_HEADERS} |->
                 [subScore |-> 100]]
SecurityHeaderSets == {NoHeaders, AllHeaders}

WeakSessionCookie == [name |-> "sessionid", secure |-> FALSE, httpOnly |-> FALSE,
                      sameSite |-> "", maxAge |-> 0, domain |-> None, path |-> "",
                      value |-> "plain"]
GoodCookie == [name |-> "theme", secure |-> TRUE, httpOnly |-> TRUE,
               sameSite |-> "Lax", maxAge |-> 0, domain |-> None, path |-> "",
               value |-> "encoded"]
SetCookieLists == {<<>>, <<WeakSessionCookie, GoodCookie>>}

WithSetCookie(headers, cookies) ==
  IF cookies = <<>> THEN headers ELSE headers @@ ("set-cookie" :> cookies)

GoodTls == [path |-> "detailed", authorized |-> TRUE, authorizationError |-> FALSE,
            certificate |-> [vulnerabilities |-> <<>>],
            protocol |-> "TLSv1.3",
            cipher |-> [bits |-> 256, vulnerabilities |-> <<>>]]
BadTls == [path |-> "detailed", authorized |-> FALSE, authorizationError |-> TRUE,
           certificate |-> [vulnerabilities |-> <<Finding("expired", "critical")>>],
           protocol |-> "SSLv3",
           cipher |-> [bits |-> 128, vulnerabilities |-> <<Finding("weak_cipher", "high")>>]]
SimpleTls == [path |-> "simple", socket |-> "unauthorized"]
TlsResults == {GoodTls, BadTls, SimpleTls}

SiteStatuses == {200, 404, 429, 503}

\* every content behind a network that answers every request, and the
\* contents with an empty page behind a network that resets connections
SitesBehind(failures, bodies) ==
  {[statuses |-> SiteStatuses, failures |-> failures,
    headers |-> WithSetCookie(h, c), body |-> b, tls |-> t] :
     h \in SecurityHeaderSets, c \in SetCookieLists, b \in bodies, t \in TlsResults}

Sites ==
  SitesBehind({}, Bodies)
  \cup SitesBehind({"ECONNRESET"}, {x \in Bodies : x.forms = <<>> /\ x.scripts = <<>>})

PipelineInputs ==
  {[kind |-> "missing"],
   [kind |-> "string", padded |-> FALSE, text |-> <<NameTok("example.com")>>],
   [kind |-> "string", padded |-> FALSE, text |-> <<IPv4Tok(<<10, 0, 1, 1>>)>>]}

PipelineDns == {<<"resolved", "resolved", "resolved", "resolved">>,
                <<"ENOTFOUND", "resolved", "resolved", "resolved">>}

Init ==
  /\ pc = "start"
  /\ url \in PipelineInputs
  /\ dns \in PipelineDns
  /\ site \in Sites
  /\ urlValidation = None /\ tried = <<>>
  /\ attempt = 0 /\ lastError = None /\ waited = 0 /\ config = NoOptions
  /\ wire = <<>> /\ httpResponse = None /\ raised = None
  /\ IdleAnalysis /\ IdleGrade /\ IdleTls /\ IdleRepeat
  /\ IdleHandshake

Next ==
  \/ AnalyzeUrl
  \/ Get
  \/ Delay
  \/ RequestSucceeds
  \/ RequestFails
  \/ StartAnalyzers
  \/ SSLSettles
  \/ BuildReport
  \/ HandlerCatch

Spec == Init /\ [][Next]_vars

----------------------------------------------------------------------------
(* Claims about the pipeline *)

Categories == {"ssl", "headers", "cookies", "html"}

ReportSent == pc = "responded" /\ res.code = "OK"

\* C2 (as stated): each of the four category analyses placed in the report
\* has a score in 0..100.
C2_Original_CategoryScoresInRange ==
  ReportSent => \A c \in Categories : analysis[c].score \in 0..100

\* the analyzers other than the HTML analyzer do keep their scores in range
C2_OtherCategoryScoresInRange ==
  ReportSent => \A c \in Categories \ {"html"} : analysis[c].score \in 0..100

C7_ShortCircuit ==
  /\ (urlValidation # None /\ ~urlValidation.isValid) =>
       /\ pc = "responded"
       /\ res.code = "INVALID_URL"
       /\ wire = <<>> /\ attempt = 0 /\ httpResponse = None
       /\ tasks = None /\ analysis = None
  /\ raised # None =>
       /\ pc \in {"thrown", "responded"}
       /\ httpResponse = None
       /\ tasks = None /\ analysis = None
       /\ pc = "responded" => res.code = "ANALYSIS_ERROR"

C7_Witness ==
  /\ pc = "responded"
  /\ raised # None
  /\ Len(wire) = 3
  /\ res.code = "ANALYSIS_ERROR"

C7_WitnessInvalid ==
  /\ pc = "responded"
  /\ urlValidation # None
  /\ ~urlValidation.isValid
  /\ res.code = "INVALID_URL"

C2_WitnessNegativeHtml ==
  /\ ReportSent
  /\ analysis.html.score < 0

----------------------------------------------------------------------------
(* Claims about the aggregator *)

CategoriesOf(a) == <<a.ssl, a.headers, a.cookies, a.html>>

\* C1: the overall score computed by _calculateOverallScore is an integer in
\* 0..100 for every combination of category results (score missing, negative
\* or above 100), every number of critical findings and both isHttps values.
C1_OverallScoreInRange ==
  pc = "scored" => analysis.score \in 0..100

C1_Witness ==
  /\ pc = "scored"
  /\ "score" \notin DOMAIN analysis.ssl
  /\ ScoreOrZero(analysis.headers) < 0
  /\ ScoreOrZero(analysis.cookies) > 100
  /\ CountWhere(analysis.vulnerabilities, IsCritical) = MaxCritical
  /\ ~analysis.isHttps

\* The value the claim C3 names, in hundredths: the weighted sum minus
\* min(30, 10 * criticals) minus 15 when not HTTPS, clamped to [0,100].
ClaimedOverall100(a) ==
  LET sum == 25 * a.ssl.score + 35 * a.headers.score
             + 25 * a.cookies.score + 15 * a.html.score
      crit == Cardinality({i \in DOMAIN a.vulnerabilities :
                             a.vulnerabilities[i].severity = "critical"})
      pen == (IF 10 * crit < 30 THEN 10 * crit ELSE 30) + (IF a.isHttps THEN 0 ELSE 15)
      x == sum - 100 * pen
  IN IF x < 0 THEN 0 ELSE IF x > 10000 THEN 10000 ELSE x

AllScoresInRange(a) ==
  \A i \in 1..4 : "score" \in DOMAIN CategoriesOf(a)[i]
                  /\ CategoriesOf(a)[i].score \in 0..100

\* C3 as stated: the overall score equals the clamped value itself.
C3_Original_ExactValue ==
  (pc = "scored" /\ AllScoresInRange(analysis))
     => 100 * analysis.score = ClaimedOverall100(analysis)

\* C3 (amended): for category scores in 0..100 the overall score is the
\* clamped value rounded to a nearest integer: it differs from the clamped
\* value by at most one half.
C3_OverallScoreIsRoundedFormula ==
  (pc = "scored" /\ AllScoresInRange(analysis))
     => /\ 100 * analysis.score - ClaimedOverall100(analysis) <= 50
        /\ ClaimedOverall100(analysis) - 100 * analysis.score <= 50

C3_Witness ==
  /\ pc = "scored"
  /\ AllScoresInRange(analysis)
  /\ ClaimedOverall100(analysis) % 100 # 0
  /\ ClaimedOverall100(analysis) > 0
  /\ CountWhere(analysis.vulnerabilities, IsCritical) = MaxCritical
  /\ ~analysis.isHttps

GradeRank(g) ==
  CASE g = "F" -> 0 [] g = "D" -> 1 [] g = "C" -> 2
    [] g = "B" -> 3 [] g = "A" -> 4 [] g = "A+" -> 5

StepGrade(s) ==
  CASE s >= 90 -> "A+"
    [] s < 90 /\ s >= 80 -> "A"
    [] s < 80 /\ s >= 70 -> "B"
    [] s < 70 /\ s >= 60 -> "C"
    [] s < 60 /\ s >= 50 -> "D"
    [] s < 50 -> "F"

\* C4: the grade is the stated step function of the score, non-decreasing
\* in the score, and the controller, header analyzer and cookie analyzer
\* grade functions agree on every score.
C4_GradeStepMonotonicAgree ==
  pc = "graded" =>
    /\ grades.controller = StepGrade(gradeScore)
    /\ grades.headers = grades.controller
    /\ grades.cookies = grades.controller
    /\ \A lower \in GradeScores :
         lower <= gradeScore =>
           GradeRank(ControllerCalculateGrade(lower)) <= GradeRank(grades.controller)

C4_Witness ==
  pc = "graded" /\ gradeScore = 90 /\ grades.controller = "A+"
  /\ grades.headers = "A+" /\ grades.cookies = "A+"

----------------------------------------------------------------------------
(* SpecCookies: one call of cookieAnalyzer.analyzeCookies, on an absent    *)
(* list, an empty list, every single modelled cookie and every modelled    *)
(* cookie followed by a well-configured one.                               *)

SameSiteValues == {"", "Lax", "None", "none", "NONE"}
MaxAges == {0, 3600, 90000}     \* seconds: none, an hour, 25 hours
CookieDomains == {None, [dot |-> TRUE, labels |-> 2], [dot |-> FALSE, labels |-> 3]}
CookiePaths == {"/", "/app"}
CookieValues == {"encoded", "plain", "markup", "huge"}

ParsedCookies ==
  [name : CookieNames, secure : BOOLEAN, httpOnly : BOOLEAN, sameSite : SameSiteValues,
   maxAge : MaxAges, domain : CookieDomains, path : CookiePaths, value : CookieValues]

CookieHeaderInputs ==
  {Undefined, <<>>} \cup {<<c>> : c \in ParsedCookies} \cup {<<c, GoodCookie>> : c \in ParsedCookies}

CookieUrl == <<Https, NameTok("example.com")>>

CookiesInit ==
  /\ pc = "cookies"
  /\ httpResponse \in {[cookies |-> list] : list \in CookieHeaderInputs}
  /\ attempt = 0 /\ lastError = None /\ waited = 0 /\ config = NoOptions
  /\ site = None /\ wire = <<>> /\ raised = None
  /\ IdleValidator /\ IdleAnalysis /\ IdleGrade /\ IdleTls /\ IdleRepeat
  /\ IdleHandshake

\* a call of cookieAnalyzer.analyzeCookies(cookieHeaders, url)
AnalyzeCookies ==
  /\ pc = "cookies"
  /\ \E tieUp \in BOOLEAN :
       analysis' = [cookies |-> analyzeCookies(httpResponse.cookies, CookieUrl, tieUp)]
  /\ pc' = "cookiesDone"
  /\ UNCHANGED <<tlsVars, repeatVars, url, dns, urlValidation, tried, attempt, lastError,
                 waited, config, site, wire, httpResponse, raised, tasks, res,
                 gradeScore, grades, handshakeVars>>

CookiesNext == AnalyzeCookies

SpecCookies == CookiesInit /\ [][CookiesNext]_vars

----------------------------------------------------------------------------
(* Claims about the cookie analyzer *)

CookiesAnalyzed == pc = "cookiesDone"

NoSetCookieEntries == httpResponse.cookies = Undefined \/ httpResponse.cookies = <<>>

\* C11 (as stated): with zero Set-Cookie entries (an empty or an absent
\* list) the cookie analysis has score 100, grade A+ and hasCookies = false.
C11_Original_NoCookiesGradeAPlus ==
  (CookiesAnalyzed /\ NoSetCookieEntries) =>
    /\ analysis.cookies.score = 100
    /\ analysis.cookies.grade = "A+"
    /\ ~analysis.cookies.hasCookies

\* what the analyzer does return without cookies: score 100, grade A
C11_NoCookiesScore100GradeA ==
  (CookiesAnalyzed /\ NoSetCookieEntries) =>
    /\ analysis.cookies.score = 100
    /\ analysis.cookies.grade = "A"
    /\ ~analysis.cookies.hasCookies

C11_WitnessNoCookies ==
  CookiesAnalyzed /\ httpResponse.cookies = Undefined /\ analysis.cookies.grade = "A"

\* the findings of one type among the findings of a cookie
OfType(vulnerabilities, type) == SelectSeq(vulnerabilities, LAMBDA v : v.type = type)

\* names the sensitivity heuristic matches, among the modelled names
MatchesSensitivityHeuristic(name) == name \in {"sessionid", "AuthToken"}

\* a flag finding is present exactly when the flag is absent, and then once
\* and with the given severity
FlagFinding(vulnerabilities, type, flagAbsent, severity) ==
  /\ Len(OfType(vulnerabilities, type)) = (IF flagAbsent THEN 1 ELSE 0)
  /\ flagAbsent => OfType(vulnerabilities, type)[1].severity = severity

\* C12: a cookie with a sensitive name gets a critical finding when Secure
\* is absent, a high finding when HttpOnly is absent and a medium finding
\* when SameSite is absent; with a non-sensitive name the missing-Secure
\* finding is high and the missing-HttpOnly finding is medium; each of the
\* three findings is there if and only if its flag is absent, and the
\* findings of every cookie are part of the findings of the analysis.
C12_FlagFindingsBySensitivity ==
  (CookiesAnalyzed /\ ~NoSetCookieEntries) =>
    \A i \in DOMAIN httpResponse.cookies :
      LET cookie == httpResponse.cookies[i]
          found == analysis.cookies.cookies[i].vulnerabilities
          sensitive == MatchesSensitivityHeuristic(cookie.name)
      IN /\ FlagFinding(found, "missing_secure_flag", ~cookie.secure,
                        IF sensitive THEN "critical" ELSE "high")
         /\ FlagFinding(found, "missing_httponly_flag", ~cookie.httpOnly,
                        IF sensitive THEN "high" ELSE "medium")
         /\ FlagFinding(found, "missing_samesite", cookie.sameSite = "", "medium")
         /\ \A k \in DOMAIN found : found[k] \in Range(analysis.cookies.vulnerabilities)

C12_Witness ==
  /\ CookiesAnalyzed
  /\ httpResponse.cookies # Undefined
  /\ Len(httpResponse.cookies) = 1
  /\ httpResponse.cookies[1].name = "sessionid"
  /\ ~httpResponse.cookies[1].secure
  /\ ~httpResponse.cookies[1].httpOnly
  /\ httpResponse.cookies[1].sameSite = ""
  /\ Finding("missing_secure_flag", "critical") \in Range(analysis.cookies.vulnerabilities)
  /\ Finding("missing_httponly_flag", "high") \in Range(analysis.cookies.vulnerabilities)
  /\ Finding("missing_samesite", "medium") \in Range(analysis.cookies.vulnerabilities)

C12_WitnessNonSensitive ==
  /\ CookiesAnalyzed
  /\ httpResponse.cookies # Undefined
  /\ Len(httpResponse.cookies) = 2
  /\ httpResponse.cookies[1].name = "PHPSESSID"
  /\ ~httpResponse.cookies[1].secure
  /\ httpResponse.cookies[1].httpOnly
  /\ Finding("missing_secure_flag", "high") \in Range(analysis.cookies.vulnerabilities)

\* SameSite=None in any letter case
IsSameSiteNone(cookie) == cookie.sameSite \in {"None", "none", "NONE"}

\* C13: every cookie with SameSite=None (any letter case) and no Secure flag
\* gets exactly one samesite_none_without_secure finding, of severity high,
\* whatever its name, HttpOnly flag, lifetime, value, domain and path; a
\* cookie with SameSite=None and Secure gets none.
C13_SameSiteNoneWithoutSecure ==
  (CookiesAnalyzed /\ ~NoSetCookieEntries) =>
    \A i \in DOMAIN httpResponse.cookies :
      LET cookie == httpResponse.cookies[i]
          found == OfType(analysis.cookies.cookies[i].vulnerabilities,
                          "samesite_none_without_secure")
      IN /\ (IsSameSiteNone(cookie) /\ ~cookie.secure) =>
              /\ found = <<Finding("samesite_none_without_secure", "high")>>
              /\ found[1] \in Range(analysis.cookies.vulnerabilities)
         /\ (IsSameSiteNone(cookie) /\ cookie.secure) => found = <<>>

C13_Witness ==
  /\ CookiesAnalyzed
  /\ httpResponse.cookies # Undefined
  /\ Len(httpResponse.cookies) = 1
  /\ httpResponse.cookies[1] =
       [name |-> "theme", secure |-> FALSE, httpOnly |-> TRUE, sameSite |-> "NONE",
        maxAge |-> 90000, domain |-> [dot |-> TRUE, labels |-> 2], path |-> "/app",
        value |-> "huge"]
  /\ Finding("samesite_none_without_secure", "high")
       \in Range(analysis.cookies.cookies[1].vulnerabilities)

----------------------------------------------------------------------------
(* SpecHeaders: headerAnalyzer.analyzeHeaders on two responses of the same  *)
(* URL, one carrying the ten catalog headers and one carrying all of them   *)
(* but Content-Security-Policy and Strict-Transport-Security.               *)

\* the sub-scores _analyzeSpecificHeader gives a header value for which it
\* records no finding (X-XSS-Protection always gets its 'info' finding)
WellConfiguredScores(key) ==
  CASE key = "content-security-policy" -> {100}
    [] key = "strict-transport-security" -> {60, 80, 100}
    [] key = "x-frame-options" -> {100, 90}
    [] key = "x-content-type-options" -> {100}
    [] key = "referrer-policy" -> {100, 60}
    [] key = "permissions-policy" -> {40, 100}
    [] key = "x-xss-protection" -> {70, 50}
    [] key = "cache-control" -> {80, 40}
    [] OTHER -> {50}

HeaderKeys == {SECURITY_HEADERS[i].key : i \in DOMAIN SECURITY_HEADERS}
CriticalKeys == {"content-security-policy", "strict-transport-security"}

\* the header objects over keys whose values are all well-configured
WellConfiguredHeaders(keys) ==
  LET W(k) == WellConfiguredScores(k)
  IN {[k \in keys |->
         [subScore |-> CASE k = "strict-transport-security" -> hsts
                         [] k = "x-frame-options" -> xfo
                         [] k = "referrer-policy" -> rp
                         [] k = "permissions-policy" -> pp
                         [] k = "x-xss-protection" -> xxss
                         [] k = "cache-control" -> cc
                         [] OTHER -> CHOOSE v \in W(k) : TRUE]] :
        hsts \in W("strict-transport-security"), xfo \in W("x-frame-options"),
        rp \in W("referrer-policy"), pp \in W("permissions-policy"),
        xxss \in W("x-xss-protection"), cc \in W("cache-control")}

HeaderUrls == {<<scheme, NameTok(host)>> :
                 scheme \in {Http, Https}, host \in {"example.com", "google.com"}}

HeadersInit ==
  /\ pc = "headers"
  /\ url \in HeaderUrls
  /\ httpResponse \in [withAll : WellConfiguredHeaders(HeaderKeys),
                        withoutCspHsts : WellConfiguredHeaders(HeaderKeys \ CriticalKeys)]
  /\ dns = None /\ urlValidation = None /\ tried = <<>>
  /\ attempt = 0 /\ lastError = None /\ waited = 0 /\ config = NoOptions
  /\ site = None /\ wire = <<>> /\ raised = None
  /\ IdleAnalysis /\ IdleGrade /\ IdleTls /\ IdleRepeat
  /\ IdleHandshake

\* headerAnalyzer.analyzeHeaders(headers, url) on each of the two responses
AnalyzeHeaders ==
  /\ pc = "headers"
  /\ \E tieAll \in BOOLEAN, tieWithout \in BOOLEAN :
       analysis' = [withAll |-> analyzeHeaders(httpResponse.withAll, url, tieAll),
                    withoutCspHsts |->
                      analyzeHeaders(httpResponse.withoutCspHsts, url, tieWithout)]
  /\ pc' = "headersDone"
  /\ UNCHANGED <<tlsVars, repeatVars, url, dns, urlValidation, tried, attempt, lastError,
                 waited, config, site, wire, httpResponse, raised, tasks, res,
                 gradeScore, grades, handshakeVars>>

HeadersNext == AnalyzeHeaders

SpecHeaders == HeadersInit /\ [][HeadersNext]_vars

----------------------------------------------------------------------------
(* Claims about the header analyzer *)

\* C14: for the same URL, the header score of a response that lacks
\* Content-Security-Policy and Strict-Transport-Security but carries the
\* other eight catalog headers well-configured is strictly lower than the
\* header score of a response that carries all ten well-configured.
C14_MissingCspHstsScoresLower ==
  pc = "headersDone" =>
    /\ analysis.withoutCspHsts.url = analysis.withAll.url
    /\ Range(analysis.withoutCspHsts.missing) =
         {"Content-Security-Policy", "Strict-Transport-Security"}
    /\ analysis.withAll.missing = <<>>
    /\ analysis.withoutCspHsts.score < analysis.withAll.score

\* a plain-HTTP run in which the complete response has the weakest
\* well-configured values and the other response the strongest
C14_Witness ==
  /\ pc = "headersDone"
  /\ url = <<Http, NameTok("example.com")>>
  /\ \A k \in HeaderKeys :
       \A v \in WellConfiguredScores(k) : httpResponse.withAll[k].subScore <= v
  /\ \A k \in HeaderKeys \ CriticalKeys :
       \A v \in WellConfiguredScores(k) : httpResponse.withoutCspHsts[k].subScore >= v
  /\ analysis.withAll.score = 73
  /\ analysis.withoutCspHsts.score = 41

----------------------------------------------------------------------------
(* SpecTls: the TLS step.  It is entered through the controller's           *)
(* _analyzeSSL(url, isHttps) or directly through sslAnalyzer.analyzeSSL(url).*)
(* site is what the target does to the two probes: handshake is the event   *)
(* that ends tls.connect of _getSSLInfo (secureConnect with the connection  *)
(* data, an 'error', the socket's 'timeout' or the analyzer's own timer),   *)
(* probe is how the HEAD request of _performSimpleSSLCheck ends.            *)

\* String.prototype.includes on the messages of the errors the analyzer sees
MessageIncludes(message, word) ==
  CASE word = "timeout" -> message \in {"SSL handshake timeout", "SSL connection timeout"}
    [] word = "recusada" -> message = "Conexao SSL recusada"
    [] word = "rejeitou" -> message = "Servidor SSL rejeitou a conexao"
    [] word = "nao encontrado" -> message = "Servidor nao encontrado"
    [] OTHER -> FALSE      \* 'refused', 'alert', 'ENOTFOUND'

\* _handleSSLError
handleSSLError(message) ==
  LET kind ==
        IF MessageIncludes(message, "timeout")
        THEN [category |-> "ssl_timeout", severity |-> "warning", recommendations |-> 3]
        ELSE IF MessageIncludes(message, "recusada") \/ MessageIncludes(message, "refused")
        THEN [category |-> "ssl_refused", severity |-> "high", recommendations |-> 3]
        ELSE IF MessageIncludes(message, "alert") \/ MessageIncludes(message, "rejeitou")
        THEN [category |-> "ssl_rejected", severity |-> "medium", recommendations |-> 3]
        ELSE IF MessageIncludes(message, "nao encontrado")
                \/ MessageIncludes(message, "ENOTFOUND")
        THEN [category |-> "dns_error", severity |-> "high", recommendations |-> 3]
        ELSE [category |-> "ssl_error", severity |-> "error", recommendations |-> 3]
  IN [isValid |-> FALSE, technicalError |-> message, category |-> kind.category,
      severity |-> kind.severity, score |-> 0,
      recommendations |-> [i \in 1..kind.recommendations |-> <<kind.category, i>>],
      vulnerabilities |-> <<Finding(kind.category, kind.severity)>>]

\* analyzeSSL: the object returned for a URL whose protocol is not https:
NotHttpsAnalysis ==
  [isSecure |-> FALSE, reason |-> "URL nao usa HTTPS", score |-> 0,
   recommendations |-> <<"Use HTTPS para proteger a comunicacao">>]

\* the error _getSSLInfo rejects with, for each way the handshake can fail
HandshakeError(failure) ==
  CASE failure = "timer" -> "SSL handshake timeout"
    [] failure = "socketTimeout" -> "SSL connection timeout"
    [] failure = "ECONNREFUSED" -> "Conexao SSL recusada"
    [] failure = "ENOTFOUND" -> "Servidor nao encontrado"
    [] failure = "ETIMEDOUT" -> "Timeout na conexao SSL"
    [] failure = "ECONNRESET" -> "Conexao SSL resetada pelo servidor"
    [] failure = "alert" -> "Servidor SSL rejeitou a conexao"
    [] OTHER -> "Erro SSL"

HandshakeFailures == {"timer", "socketTimeout", "ECONNREFUSED", "ENOTFOUND", "ETIMEDOUT",
                      "ECONNRESET", "alert", "EPROTO"}
ProbeOutcomes == {"authorized", "unauthorized", "unknown", "error", "timeout"}

\* connection data of a completed handshake: the protocol as getProtocol()
\* gives it, certificate and cipher already analysed
CertificateFindings == {<<>>, <<Finding("expired", "critical")>>,
                        <<Finding("expiring_soon", "warning")>>,
                        <<Finding("weak_key", "high")>>}
Protocols == {"TLSv1.3", "TLSv1.2", "TLSv1.1", "TLSv1", "SSLv3", "unknown", ""}
CipherAnalyses == {[bits |-> 256, vulnerabilities |-> <<>>],
                   [bits |-> 128, vulnerabilities |-> <<>>],
                   [bits |-> 64, vulnerabilities |-> <<Finding("weak_cipher", "critical")>>]}
SslInfos ==
  {[path |-> "detailed", authorized |-> a, authorizationError |-> ~a,
    certificate |-> [vulnerabilities |-> c], protocol |-> p, cipher |-> k] :
     a \in BOOLEAN, c \in CertificateFindings, p \in Protocols, k \in CipherAnalyses}

\* analysisThrows: _analyzeSSLInfo throws on the connection data (as
\* _calculateChainLength does on a chain it cannot walk to an end)
Handshakes ==
  {[kind |-> "secureConnect", sslInfo |-> i, analysisThrows |-> t] :
     i \in SslInfos, t \in BOOLEAN}
  \cup {[kind |-> "error", failure |-> f] : f \in HandshakeFailures}

TlsSites == [handshake : Handshakes, probe : ProbeOutcomes]

TlsUrls == {<<Http, NameTok("example.com")>>, <<Https, NameTok("example.com")>>,
            <<Https, BadHostTok>>}

TlsInit ==
  /\ pc \in {"controller", "analyzer"}
  /\ url \in TlsUrls
  /\ pc = "controller" => ParseUrl(url).ok          \* the controller has a validated URL
  /\ site \in TlsSites
  /\ tasks = [ssl |-> Pending]
  /\ probes = <<>> /\ walk = None
  /\ dns = None /\ urlValidation = None /\ tried = <<>>
  /\ attempt = 0 /\ lastError = None /\ waited = 0 /\ config = NoOptions
  /\ wire = <<>> /\ httpResponse = None /\ raised = None
  /\ analysis = None /\ res = None
  /\ IdleGrade /\ IdleRepeat
  /\ IdleHandshake

\* AnalysisController._analyzeSSL(url, isHttps), isHttps as the validator set it
ControllerAnalyzeSSL ==
  /\ pc = "controller"
  /\ LET isHttps == ParseUrl(url).protocol = "https"
     IN IF ~isHttps
        THEN /\ tasks' = [tasks EXCEPT !.ssl = Fulfilled(NonHttpsSSL)]
             /\ pc' = "tlsDone"
        ELSE /\ tasks' = tasks
             /\ pc' = "analyzer"
  /\ UNCHANGED <<probes, walk, repeatVars, url, dns, urlValidation, tried, attempt,
                 lastError, waited, config, site, wire, httpResponse, raised, analysis,
                 res, gradeScore, grades, handshakeVars>>

\* analyzeSSL that opens the connection before it looks at the protocol
AnalyzeSSL_ConnectsFirst ==
  /\ pc = "analyzer"
  /\ LET parsedUrl == ParseUrl(url)
     IN IF ~parsedUrl.ok
        THEN /\ tasks' = [tasks EXCEPT !.ssl = Fulfilled(handleSSLError("Invalid URL"))]
             /\ pc' = "tlsDone"
             /\ probes' = probes
        ELSE /\ probes' = Append(probes, "tls.connect")
             /\ IF parsedUrl.protocol # "https"
                THEN /\ tasks' = [tasks EXCEPT !.ssl = Fulfilled(NotHttpsAnalysis)]
                     /\ pc' = "tlsDone"
                ELSE /\ tasks' = tasks
                     /\ pc' = "handshake"
  /\ UNCHANGED <<walk, repeatVars, url, dns, urlValidation, tried, attempt, lastError,
                 waited, config, site, wire, httpResponse, raised, analysis, res,
                 gradeScore, grades, handshakeVars>>

\* analyzeSSL, lines 17-35: up to the await of _getSSLInfo
AnalyzeSSL ==
  /\ pc = "analyzer"
  /\ LET parsedUrl == ParseUrl(url)
     IN IF ~parsedUrl.ok                          \* new URL(url) throws: outer catch
        THEN /\ tasks' = [tasks EXCEPT !.ssl = Fulfilled(handleSSLError("Invalid URL"))]
             /\ pc' = "tlsDone"
             /\ probes' = probes
        ELSE IF parsedUrl.protocol # "https"
        THEN /\ tasks' = [tasks EXCEPT !.ssl = Fulfilled(NotHttpsAnalysis)]
             /\ pc' = "tlsDone"
             /\ probes' = probes
        ELSE /\ probes' = Append(probes, "tls.connect")
             /\ tasks' = tasks
             /\ pc' = "handshake"
  /\ UNCHANGED <<walk, repeatVars, url, dns, urlValidation, tried, attempt, lastError,
                 waited, config, site, wire, httpResponse, raised, analysis, res,
                 gradeScore, grades, handshakeVars>>

\* 'secureConnect': _getSSLInfo resolves and _analyzeSSLInfo runs; when it
\* throws, the inner catch starts _performSimpleSSLCheck
HandshakeSucceeds ==
  /\ pc = "handshake"
  /\ site.handshake.kind = "secureConnect"
  /\ IF site.handshake.analysisThrows
     THEN /\ raised' = [message |-> "analysis"]
          /\ probes' = Append(probes, "https.request")
          /\ tasks' = tasks
          /\ pc' = "probe"
     ELSE /\ tasks' = [tasks EXCEPT !.ssl = Fulfilled(analyzeSSLInfo(site.handshake.sslInfo))]
          /\ pc' = "tlsDone"
          /\ UNCHANGED <<raised, probes, handshakeVars>>
  /\ UNCHANGED <<walk, repeatVars, url, dns, urlValidation, tried, attempt, lastError,
                 waited, config, site, wire, httpResponse, analysis, res, gradeScore,
                 grades, handshakeVars>>

\* a failed handshake that makes analyzeSSL itself fail
HandshakeFails_NoFallback ==
  /\ pc = "handshake"
  /\ site.handshake.kind = "error"
  /\ raised' = [message |-> HandshakeError(site.handshake.failure)]
  /\ tasks' = [tasks EXCEPT !.ssl = Rejected("SSL")]
  /\ pc' = "tlsDone"
  /\ UNCHANGED <<probes, walk, repeatVars, url, dns, urlValidation, tried, attempt,
                 lastError, waited, config, site, wire, httpResponse, analysis, res,
                 gradeScore, grades, handshakeVars>>

\* 'error', 'timeout' or the analyzer's timer: _getSSLInfo rejects and the
\* inner catch starts _performSimpleSSLCheck
HandshakeFails ==
  /\ pc = "handshake"
  /\ site.handshake.kind = "error"
  /\ raised' = [message |-> HandshakeError(site.handshake.failure)]
  /\ probes' = Append(probes, "https.request")
  /\ pc' = "probe"
  /\ UNCHANGED <<walk, repeatVars, url, dns, urlValidation, tried, attempt, lastError,
                 waited, config, site, wire, httpResponse, tasks, analysis, res,
                 gradeScore, grades, handshakeVars>>

\* the HEAD request of _performSimpleSSLCheck ends with a response, an
\* error or a timeout, and analyzeSSL returns what the check resolved with
ProbeResolves ==
  /\ pc = "probe"
  /\ tasks' = [tasks EXCEPT !.ssl = Fulfilled(performSimpleSSLCheck(site.probe))]
  /\ pc' = "tlsDone"
  /\ UNCHANGED <<probes, walk, repeatVars, url, dns, urlValidation, tried, attempt,
                 lastError, waited, config, site, wire, httpResponse, raised, analysis,
                 res, gradeScore, grades, handshakeVars>>

TlsNext ==
  \/ ControllerAnalyzeSSL
  \/ AnalyzeSSL
  \/ HandshakeSucceeds
  \/ HandshakeFails
  \/ ProbeResolves

\* every started probe ends: _getSSLInfo by its own timer at the latest,
\* the HEAD request by a response, an error or its socket timeout
SpecTls == TlsInit /\ [][TlsNext]_vars /\ WF_vars(TlsNext)

----------------------------------------------------------------------------
(* Claims about the TLS step *)

TlsStepDone == pc = "tlsDone"
IsHttpsUrl == ParseUrl(url).ok /\ ParseUrl(url).protocol = "https"
IsNonHttpsUrl == ParseUrl(url).ok /\ ParseUrl(url).protocol # "https"

\* C15: the TLS step on a non-HTTPS URL returns isSecure = false, score 0
\* and exactly one recommendation, and opens no TLS connection and runs no
\* fallback probe.
C15_NonHttpsNoProbe ==
  IsNonHttpsUrl =>
    /\ probes = <<>>
    /\ pc \notin {"handshake", "probe"}
    /\ TlsStepDone =>
         /\ tasks.ssl.status = "fulfilled"
         /\ tasks.ssl.value.isSecure = FALSE
         /\ tasks.ssl.value.score = 0
         /\ Len(tasks.ssl.value.recommendations) = 1

\* the step has returned for an http URL
C15_Witness ==
  /\ TlsStepDone
  /\ url = <<Http, NameTok("example.com")>>
  /\ tasks.ssl.value = NotHttpsAnalysis
  /\ site.handshake.kind = "secureConnect"

\* connection data on which the primary path finds nothing to report:
\* authorized, TLS 1.2 or 1.3, no finding in certificate, protocol or cipher
FullyValidSslInfos ==
  {i \in SslInfos : /\ i.authorized
                    /\ i.protocol \in {"TLSv1.2", "TLSv1.3"}
                    /\ i.certificate.vulnerabilities = <<>>
                    /\ analyzeProtocol(i.protocol).vulnerabilities = <<>>
                    /\ i.cipher.vulnerabilities = <<>>}

\* the detailed analysis did not produce the result: the handshake failed
\* or _analyzeSSLInfo threw
PrimaryFailed ==
  \/ site.handshake.kind = "error"
  \/ site.handshake.kind = "secureConnect" /\ site.handshake.analysisThrows

FallbackReturned ==
  /\ tasks.ssl.status = "fulfilled"
  /\ tasks.ssl.value = performSimpleSSLCheck(site.probe)
  /\ tasks.ssl.value.score \in {0, 10, 20, 30, 70}
  /\ \A i \in FullyValidSslInfos : tasks.ssl.value.score <= analyzeSSLInfo(i).score

\* C20: for an HTTPS URL analyzeSSL never rejects and never hangs; when the
\* primary handshake fails, for whatever reason, the fallback probe is run
\* exactly once and its result is returned; the fallback resolves with a
\* score from {0, 10, 20, 30, 70}, never above the score the primary path
\* gives a fully valid TLS 1.2+ configuration.
C20_NeverRejectsFallbackOnce ==
  /\ [](IsHttpsUrl =>
          /\ tasks.ssl.status # "rejected"
          /\ Len(SelectSeq(probes, LAMBDA c : c = "https.request")) <= 1
          /\ Len(SelectSeq(probes, LAMBDA c : c = "tls.connect")) <= 1
          /\ (TlsStepDone /\ PrimaryFailed) =>
               /\ probes = <<"tls.connect", "https.request">>
               /\ FallbackReturned
          /\ (TlsStepDone /\ ~PrimaryFailed) => probes = <<"tls.connect">>)
  /\ (IsHttpsUrl ~> (TlsStepDone /\ tasks.ssl.status = "fulfilled"))

\* the handshake was reset, the fallback probe timed out and analyzeSSL
\* returned the probe's timeout result
C20_Witness ==
  /\ TlsStepDone
  /\ IsHttpsUrl
  /\ site.handshake.kind = "error"
  /\ site.handshake.failure = "ECONNRESET"
  /\ raised = [message |-> "Conexao SSL resetada pelo servidor"]
  /\ site.probe = "timeout"
  /\ probes = <<"tls.connect", "https.request">>
  /\ tasks.ssl.value.score = 10

----------------------------------------------------------------------------
(* SpecRepeat: two runs of the analysis over the same validated URL and the *)
(* same fetch result.  Each run sends its request with a User-Agent picked  *)
(* by _getRandomUserAgent, starts the four analyzers, lets them settle in   *)
(* any order and builds the report.  The target answers both requests       *)
(* alike; an analyzer that throws on the target's content throws in both    *)
(* runs; Math.round gives the same result for the same argument (halfUp).   *)

USER_AGENTS == {"default", "chrome", "firefox", "mobile"}

RepeatSites ==
  {[statuses |-> {200}, failures |-> {}, headers |-> WithSetCookie(h.headers, h.cookies),
    body |-> EmptyBody, tls |-> h.tls, throwing |-> t] :
     h \in {[headers |-> AllHeaders, cookies |-> <<GoodCookie>>, tls |-> GoodTls],
            [headers |-> NoHeaders, cookies |-> <<WeakSessionCookie>>, tls |-> SimpleTls]},
     t \in {{}, {"html"}}}

RepeatUrls == {<<Http, NameTok("example.com")>>, <<Https, NameTok("example.com")>>}

RepeatInit ==
  /\ pc = "fetch"
  /\ url \in RepeatUrls
  /\ urlValidation = [isValid |-> TRUE, url |-> url, isHttps |-> StartsWith(url, Https)]
  /\ site \in RepeatSites
  /\ halfUp \in BOOLEAN
  /\ runs = <<>> /\ finished = <<>>
  /\ dns = None /\ tried = <<>>
  /\ attempt = 0 /\ lastError = None /\ waited = 0 /\ config = NoOptions
  /\ wire = <<>> /\ httpResponse = None /\ raised = None
  /\ IdleAnalysis /\ IdleGrade /\ IdleTls /\ IdleHandshake

\* httpClient.get: the request goes out with a random User-Agent and the
\* response is processed; then analyzeUrl creates the four analysis promises
RepeatFetch ==
  /\ pc = "fetch"
  /\ \E userAgent \in USER_AGENTS :
       wire' = Append(wire, [url |-> urlValidation.url, userAgent |-> userAgent])
  /\ httpResponse' = processResponse(200, site, urlValidation.url)
  /\ tasks' = [c \in {"ssl", "headers", "cookies", "html"} |-> Pending]
  /\ pc' = "settling"
  /\ UNCHANGED <<tlsVars, runs, finished, halfUp, url, dns, urlValidation, tried, attempt,
                 lastError, waited, config, site, raised, analysis, res, gradeScore,
                 grades, handshakeVars>>

\* what the analyzer of a category settles with
Settled(category) ==
  CASE category = "ssl" ->
         IF ~urlValidation.isHttps THEN Fulfilled(NonHttpsSSL)
         ELSE Fulfilled(analyzeSSL(site.tls))
    [] category = "headers" ->
         Fulfilled(analyzeHeaders(httpResponse.headers, urlValidation.url, halfUp))
    [] category = "cookies" ->
         Fulfilled(analyzeCookies(httpResponse.cookies, urlValidation.url, halfUp))
    [] category = "html" ->
         IF "html" \in site.throwing THEN Rejected("HTML")
         ELSE Fulfilled(analyzeHTML(httpResponse.data, urlValidation.url))

\* the analyzers settle, and the header analyzer empties the cookie list of
\* the fetch result it was handed
AnalyzerSettles_HeadersConsumeResponse ==
  /\ pc = "settling"
  /\ \E category \in DOMAIN tasks :
       /\ tasks[category].status = "pending"
       /\ tasks' = [tasks EXCEPT ![category] = Settled(category)]
       /\ finished' = Append(finished, category)
       /\ httpResponse' = IF category = "headers"
                          THEN [httpResponse EXCEPT !.cookies = <<>>]
                          ELSE httpResponse
  /\ UNCHANGED <<tlsVars, runs, halfUp, pc, url, dns, urlValidation, tried, attempt,
                 lastError, waited, config, site, wire, raised, analysis,
                 res, gradeScore, grades, handshakeVars>>

\* one of the pending analysis promises settles
AnalyzerSettles ==
  /\ pc = "settling"
  /\ \E category \in DOMAIN tasks :
       /\ tasks[category].status = "pending"
       /\ tasks' = [tasks EXCEPT ![category] = Settled(category)]
       /\ finished' = Append(finished, category)
  /\ UNCHANGED <<tlsVars, runs, halfUp, pc, url, dns, urlValidation, tried, attempt,
                 lastError, waited, config, site, wire, httpResponse, raised, analysis,
                 res, gradeScore, grades, handshakeVars>>

\* Promise.allSettled has resolved: the report of this run is built and sent
RepeatBuildReport ==
  /\ pc = "settling"
  /\ AllSettled(tasks)
  /\ LET report == buildAnalysis(allSettled(tasks), urlValidation, url, httpResponse,
                                 halfUp)
     IN runs' = Append(runs, [report |-> report,
                              userAgent |-> wire[Len(wire)].userAgent,
                              settledFirst |-> finished[1]])
  /\ finished' = <<>>
  /\ tasks' = None
  /\ httpResponse' = None
  /\ pc' = IF Len(runs) = 0 THEN "fetch" ELSE "repeated"
  /\ UNCHANGED <<tlsVars, halfUp, url, dns, urlValidation, tried, attempt, lastError,
                 waited, config, site, wire, raised, analysis, res, gradeScore, grades,
                 handshakeVars>>

RepeatNext ==
  \/ RepeatFetch
  \/ AnalyzerSettles
  \/ RepeatBuildReport

SpecRepeat == RepeatInit /\ [][RepeatNext]_vars

----------------------------------------------------------------------------
(* Claims about repeated runs *)

\* C16: two runs of the analysis over the same validated URL and the same
\* fetch result produce reports that are equal in every field (the model
\* has no timestamp field); neither the User-Agent picked for the request
\* nor the order in which the analyzers settle changes the report.
C16_RepeatedRunsSameReport ==
  Len(runs) = 2 => runs[1].report = runs[2].report

\* two finished runs that used different User-Agents and whose analyzers
\* settled in different orders, one of them failing
C16_Witness ==
  /\ Len(runs) = 2
  /\ runs[1].userAgent # runs[2].userAgent
  /\ runs[1].settledFirst = "html"
  /\ runs[2].settledFirst = "ssl"
  /\ runs[1].report.isHttps
  /\ "html" \in site.throwing
  /\ runs[1].report.html.vulnerabilities[1].type = "analysis_error"
  /\ runs[1].report.ssl.score = 30

----------------------------------------------------------------------------
(* SpecClassify: the error classifier on one error of axios.get: a response *)
(* with a status of 400..599 that validateStatus rejected, a request that   *)
(* got no response (with the code and message Node and axios give it), or   *)
(* an error raised before the request was sent.                             *)

RequestErrors ==
  {[code |-> "ENOTFOUND", message |-> "getaddrinfo ENOTFOUND"],
   [code |-> "EAI_AGAIN", message |-> "getaddrinfo EAI_AGAIN"],
   [code |-> "ECONNREFUSED", message |-> "connect ECONNREFUSED"],
   [code |-> "ECONNRESET", message |-> "read ECONNRESET"],
   [code |-> "ECONNRESET", message |-> "socket hang up"],
   [code |-> "ETIMEDOUT", message |-> "connect ETIMEDOUT"],
   [code |-> "ECONNABORTED", message |-> "timeout of 15000ms exceeded"],
   [code |-> "CERT_HAS_EXPIRED", message |-> "certificate has expired"],
   [code |-> "EPROTO", message |-> "write EPROTO SSL routines"],
   [code |-> "ERR_TLS_HANDSHAKE_TIMEOUT", message |-> "TLS handshake timeout"],
   [code |-> "EHOSTUNREACH", message |-> "connect EHOSTUNREACH"]}

ClassifierErrors ==
  {[message |-> "Request failed with status code", response |-> [status |-> st]] :
     st \in 400..599}
  \cup {[message |-> e.message, code |-> e.code, request |-> TRUE] : e \in RequestErrors}
  \cup {[message |-> "Invalid URL"]}

ClassifyInit ==
  /\ pc = "classify"
  /\ lastError \in ClassifierErrors
  /\ attempt = 0 /\ waited = 0 /\ config = NoOptions
  /\ site = None /\ wire = <<>> /\ httpResponse = None /\ raised = None
  /\ IdleValidator /\ IdleAnalysis /\ IdleGrade /\ IdleTls /\ IdleRepeat
  /\ IdleHandshake

\* isRecoverableError(processNetworkError(error, url))
Classify ==
  /\ pc = "classify"
  /\ LET processed == processNetworkError(lastError, FetchUrl)
     IN /\ raised' = processed
        /\ res' = [recoverable |-> isRecoverableError(processed)]
  /\ pc' = "classified"
  /\ UNCHANGED <<tlsVars, repeatVars, url, dns, urlValidation, tried, attempt, lastError,
                 waited, config, site, wire, httpResponse, tasks, analysis, gradeScore,
                 grades, handshakeVars>>

ClassifyNext == Classify

SpecClassify == ClassifyInit /\ [][ClassifyNext]_vars

----------------------------------------------------------------------------
(* Claims about the error classifier *)

Classified == pc = "classified"
HasCode(code) == "code" \in DOMAIN lastError /\ lastError.code = code
HasStatus(S) == "response" \in DOMAIN lastError /\ lastError.response.status \in S

\* C17 as stated: the retryability flag is false for ENOTFOUND, false for
\* ECONNREFUSED, true for ECONNRESET, true for ETIMEDOUT, false for an
\* SSL/certificate error that is not a timeout, false for 4xx other than
\* 408/429, true for 429, and among 5xx true exactly for 502, 503, 504.
C17_Original_RetryabilityTaxonomy ==
  Classified =>
    /\ HasCode("ENOTFOUND") => ~res.recoverable
    /\ HasCode("ECONNREFUSED") => ~res.recoverable
    /\ HasCode("ECONNRESET") => res.recoverable
    /\ HasCode("ETIMEDOUT") => res.recoverable
    /\ (HasCode("CERT_HAS_EXPIRED") \/ HasCode("EPROTO")) => ~res.recoverable
    /\ HasStatus((400..499) \ {408, 429}) => ~res.recoverable
    /\ HasStatus({429}) => res.recoverable
    /\ HasStatus(500..599) => (res.recoverable <=> HasStatus({502, 503, 504}))

\* the taxonomy without the ECONNREFUSED line holds
C17_TaxonomyButConnectionRefused ==
  Classified =>
    /\ HasCode("ENOTFOUND") => ~res.recoverable
    /\ HasCode("ECONNREFUSED") => (raised.category = "connection" /\ res.recoverable)
    /\ HasCode("ECONNRESET") => res.recoverable
    /\ HasCode("ETIMEDOUT") => res.recoverable
    /\ (HasCode("CERT_HAS_EXPIRED") \/ HasCode("EPROTO")) => ~res.recoverable
    /\ HasStatus((400..499) \ {408, 429}) => ~res.recoverable
    /\ HasStatus({429}) => res.recoverable
    /\ HasStatus(500..599) => (res.recoverable <=> HasStatus({502, 503, 504}))

----------------------------------------------------------------------------
(* Claims about severities *)

SeveritySet == {"critical", "high", "medium", "low", "info", "warning"}

\* the findings of the report: those of the four category analyses and the
\* flattened list
ReportFindings ==
  UNION {Range(VulnsOrEmpty(analysis[c])) : c \in Categories}
  \cup Range(analysis.vulnerabilities)

\* C18 as stated: every finding in every category analysis and in the
\* report's flattened findings, the placeholder of a failed analyzer
\* included, has severity in {critical, high, medium, low, info, warning}.
C18_Original_SeveritySetClosed ==
  ReportSent => \A v \in ReportFindings : v.severity \in SeveritySet

\* the only severity outside the set is 'error', and only the placeholder
\* of a failed analyzer carries it
C18_OnlyPlaceholderOutsideSet ==
  ReportSent =>
    \A v \in ReportFindings :
      v.severity \notin SeveritySet => (v.severity = "error" /\ v.type = "analysis_error")

----------------------------------------------------------------------------
(* SpecChain: _analyzeChain on the object graph getPeerCertificate(true)    *)
(* returned.  Certificates are 1..MaxCerts, 1 is the leaf; issuer[c] is the *)
(* certificate object c.issuerCertificate points to (0: the property is     *)
(* absent) and selfIssued[c] says whether c.subject and c.issuer are equal. *)
(* walk is the graph and the position of the walk: phase, the certificate   *)
(* the current call or loop iteration looks at, the count argument and the  *)
(* number of nested _calculateChainLength calls.                            *)

Certs == 1..MaxCerts

CertGraphs == [issuer : [Certs -> 0..MaxCerts], selfIssued : [Certs -> BOOLEAN]]

\* cert.issuerCertificate && cert.issuerCertificate !== cert
HasOtherIssuer(graph, cert) ==
  graph.issuer[cert] # 0 /\ graph.issuer[cert] # cert

ChainInit ==
  /\ pc = "chain"
  /\ \E graph \in CertGraphs :
       walk = [graph |-> graph, phase |-> "start", current |-> 1, count |-> 0,
               depth |-> 0, length |-> 0, isComplete |-> FALSE]
  /\ probes = <<>>
  /\ attempt = 0 /\ lastError = None /\ waited = 0 /\ config = NoOptions
  /\ site = None /\ wire = <<>> /\ httpResponse = None /\ raised = None
  /\ IdleValidator /\ IdleAnalysis /\ IdleGrade /\ IdleRepeat
  /\ IdleHandshake

\* _analyzeChain, lines 503-513: the guard and the call of _calculateChainLength
AnalyzeChain ==
  /\ pc = "chain"
  /\ walk.phase = "start"
  /\ IF HasOtherIssuer(walk.graph, 1)
     THEN walk' = [walk EXCEPT !.phase = "length", !.current = 1, !.count = 1, !.depth = 1]
     ELSE walk' = [walk EXCEPT !.phase = "returned"]
  /\ UNCHANGED <<probes, repeatVars, pc, url, dns, urlValidation, tried, attempt,
                 lastError, waited, config, site, wire, httpResponse, raised, tasks,
                 analysis, res, gradeScore, grades, handshakeVars>>

\* one call of _calculateChainLength(cert, count): it calls itself on the
\* issuer, which the engine refuses when its stack is full, or returns count
\* through all the callers, after which _analyzeChain calls _isChainComplete
CalculateChainLength ==
  /\ pc = "chain"
  /\ walk.phase = "length"
  /\ IF HasOtherIssuer(walk.graph, walk.current)
     THEN IF walk.depth = MaxCallDepth
          THEN walk' = [walk EXCEPT !.phase = "threw"]      \* RangeError
          ELSE walk' = [walk EXCEPT !.current = walk.graph.issuer[walk.current],
                                    !.count = walk.count + 1,
                                    !.depth = walk.depth + 1]
     ELSE walk' = [walk EXCEPT !.length = walk.count, !.depth = 0,
                               !.phase = "complete", !.current = 1]
  /\ UNCHANGED <<probes, repeatVars, pc, url, dns, urlValidation, tried, attempt,
                 lastError, waited, config, site, wire, httpResponse, raised, tasks,
                 analysis, res, gradeScore, grades, handshakeVars>>

\* one test of the while condition of _isChainComplete: the body, or the
\* return after the loop
IsChainComplete ==
  /\ pc = "chain"
  /\ walk.phase = "complete"
  /\ IF HasOtherIssuer(walk.graph, walk.current)
     THEN walk' = [walk EXCEPT !.current = walk.graph.issuer[walk.current]]
     ELSE walk' = [walk EXCEPT !.isComplete = walk.graph.selfIssued[walk.current],
                               !.phase = "returned"]
  /\ UNCHANGED <<probes, repeatVars, pc, url, dns, urlValidation, tried, attempt,
                 lastError, waited, config, site, wire, httpResponse, raised, tasks,
                 analysis, res, gradeScore, grades, handshakeVars>>

ChainNext ==
  \/ AnalyzeChain
  \/ CalculateChainLength
  \/ IsChainComplete

\* the engine keeps running the call
SpecChain == ChainInit /\ [][ChainNext]_vars /\ WF_vars(ChainNext)

----------------------------------------------------------------------------
(* Claims about the chain walk *)

\* C19 as stated: the chain walk (length and completeness) terminates for
\* every certificate graph, cyclic ones included: _analyzeChain comes to
\* its return, having stopped at a certificate without a further issuer.
C19_Original_ChainWalkTerminates ==
  <>(walk.phase = "returned" /\ ~HasOtherIssuer(walk.graph, walk.current))

\* the walk returns on every graph whose pointers from the leaf lead to a
\* certificate without a further issuer, and ends in the engine's
\* RangeError on every other graph
C19_WalkReturnsIffAcyclic ==
  /\ [](walk.phase = "threw" => HasOtherIssuer(walk.graph, walk.current))
  /\ <>(walk.phase \in {"returned", "threw"})

----------------------------------------------------------------------------
(* Claims about the fetcher and the retryability taxonomy *)

\* the failures the taxonomy marks retryable: a connection reset, a
\* timeout, and a 408, 429, 502, 503 or 504 answer
TaxonomyRetryable(answer) ==
  \/ answer.kind = "error" /\ answer.code \in {"ECONNRESET", "ETIMEDOUT"}
  \/ answer.kind = "response" /\ answer.status \in {408, 429, 502, 503, 504}

\* the answer is a failure of the taxonomy: no response, or a 4xx/5xx answer
TaxonomyFailure(answer) ==
  \/ answer.kind = "error"
  \/ answer.kind = "response" /\ answer.status \in 400..599

\* C21 as stated: after a failed attempt with attempts remaining the
\* fetcher makes another attempt if and only if the taxonomy marks the
\* failure retryable: no attempt follows a DNS failure or a refused
\* connection; an attempt follows a reset, a timeout and a 408, 429, 502,
\* 503 or 504 answer.
C21_Original_RetryIffTaxonomyRetryable ==
  /\ \A k \in 2..Len(wire) : TaxonomyRetryable(wire[k - 1].answer)
  /\ (pc \in {"thrown", "fetched"} /\ wire # <<>> /\ Len(wire) < MaxRetries
      /\ TaxonomyFailure(wire[Len(wire)].answer))
       => ~TaxonomyRetryable(wire[Len(wire)].answer)

\* what the fetcher does: with attempts remaining, another attempt follows
\* exactly the rejections of axios.get that are not a 4xx response other
\* than 408 and 429; an answer axios.get resolves with ends the fetch
C21_RetryIffRejectedAndNotClient4xx ==
  /\ \A k \in 2..Len(wire) : FailedCall(wire[k - 1]) /\ ~Failed4xx(wire[k - 1])
  /\ (pc \in {"thrown", "fetched"} /\ wire # <<>> /\ Len(wire) < MaxRetries)
       => (~FailedCall(wire[Len(wire)]) \/ Failed4xx(wire[Len(wire)]))

----------------------------------------------------------------------------
(* Claims about the flattened findings list *)

\* the findings the TLS analyzer keeps under the certificate, protocol and
\* cipher analyses of its result
ComponentFindings(x) ==
  (IF "certificate" \in DOMAIN x THEN x.certificate.vulnerabilities ELSE <<>>)
  \o (IF "protocol" \in DOMAIN x THEN x.protocol.vulnerabilities ELSE <<>>)
  \o (IF "cipher" \in DOMAIN x THEN x.cipher.vulnerabilities ELSE <<>>)

\* every finding an analyzer produced, in category order
AnalyzerFindings ==
  VulnsOrEmpty(analysis.ssl) \o ComponentFindings(analysis.ssl)
  \o VulnsOrEmpty(analysis.headers) \o VulnsOrEmpty(analysis.cookies)
  \o VulnsOrEmpty(analysis.html)

\* C22 as stated: the flattened list contains every finding any analyzer
\* produced, the certificate, protocol and cipher findings of the TLS
\* analyzer included, with severity and type unchanged, and the critical
\* count of the statistics counts each of them.
C22_Original_EveryFindingFlattened ==
  ReportSent =>
    /\ \A v \in Range(AnalyzerFindings) :
         \E w \in Range(analysis.vulnerabilities) :
           w.type = v.type /\ w.severity = v.severity
    /\ analysis.stats.criticalVulnerabilities
         = CountWhere(AnalyzerFindings, LAMBDA v : v.severity = "critical")

\* what the report holds: the flattened list is the concatenation of the
\* four top-level lists, and the statistics count that list
C22_TopLevelFindingsFlattened ==
  ReportSent =>
    /\ analysis.vulnerabilities
         = VulnsOrEmpty(analysis.ssl) \o VulnsOrEmpty(analysis.headers)
           \o VulnsOrEmpty(analysis.cookies) \o VulnsOrEmpty(analysis.html)
    /\ analysis.stats.criticalVulnerabilities
         = CountWhere(analysis.vulnerabilities, LAMBDA v : v.severity = "critical")
    /\ analysis.stats.totalVulnerabilities = Len(analysis.vulnerabilities)

----------------------------------------------------------------------------
(* Claims about the protocol grading *)

\* analyzeSSL returned the detailed analysis of a completed handshake
DetailedAnalysisReturned ==
  /\ TlsStepDone
  /\ tasks.ssl.status = "fulfilled"
  /\ "protocol" \in DOMAIN tasks.ssl.value

\* the grade and the finding the grading table gives each protocol
\* version: TLS 1.3 A+, TLS 1.2 A, TLS 1.1 B with a deprecated-protocol
\* finding, TLS 1.0 (reported as "TLSv1") and every SSL version F with a
\* critical finding
TableGrade(version) ==
  CASE version = "TLSv1.3" -> [grade |-> "A+", findings |-> <<>>]
    [] version = "TLSv1.2" -> [grade |-> "A", findings |-> <<>>]
    [] version = "TLSv1.1" ->
         [grade |-> "B", findings |-> <<Finding("deprecated_protocol", "medium")>>]
    [] version \in {"TLSv1", "SSLv3"} ->
         [grade |-> "F", findings |-> <<Finding("insecure_protocol", "critical")>>]
    [] OTHER -> None

\* C23 as stated: the protocol analysis grades TLS 1.3 A+ and TLS 1.2 A
\* with no finding, TLS 1.1 B with a deprecated-protocol finding, TLS 1.0
\* (reported as "TLSv1") and every SSL version F with a critical finding,
\* and every non-empty protocol string receives a grade.
C23_Original_ProtocolGradeTable ==
  DetailedAnalysisReturned =>
    LET p == tasks.ssl.value.protocol
    IN /\ p.version # "" => "grade" \in DOMAIN p
       /\ TableGrade(p.version) # None =>
            /\ "grade" \in DOMAIN p
            /\ p.grade = TableGrade(p.version).grade
            /\ p.vulnerabilities = TableGrade(p.version).findings

\* what the analysis does: the table holds for TLS 1.3, 1.2, 1.1 and SSL;
\* "TLSv1" and "unknown" get neither a grade nor a finding
C23_TableButTls10AndUnknown ==
  DetailedAnalysisReturned =>
    LET p == tasks.ssl.value.protocol
    IN /\ p.version \in {"TLSv1.3", "TLSv1.2", "TLSv1.1", "SSLv3"} =>
            /\ p.grade = TableGrade(p.version).grade
            /\ p.vulnerabilities = TableGrade(p.version).findings
       /\ p.version \in {"TLSv1", "unknown"} =>
            "grade" \notin DOMAIN p /\ p.vulnerabilities = <<>>
       /\ p.version = "" =>
            "grade" \notin DOMAIN p
            /\ p.vulnerabilities = <<Finding("no_protocol", "critical")>>

----------------------------------------------------------------------------
(* SSLAnalyzer._getSSLInfo: the handshake promise.                         *)
(* The socket can emit 'secureConnect', 'error' and 'timeout', each at     *)
(* most once and in any order, also after socket.destroy(); the manual     *)
(* timer fires only while it has not been cleared.                         *)

\* reject(new Error(message)) as the state a pending promise takes
RejectedWith(message) == [status |-> "rejected", reason |-> [message |-> message]]

\* resolve(...) and reject(...) of the promise executor: only the first
\* call settles the promise
SettlePromise(promise, outcome) ==
  IF promise.status = "pending" THEN outcome ELSE promise

\* clearTimeout(timeoutId)
ClearTimeout(timer) == IF timer = "armed" THEN "cleared" ELSE timer

HandshakeSslInfos ==
  {[protocol |-> p, authorized |-> a] : p \in {"TLSv1.3", "TLSv1"}, a \in BOOLEAN}

\* error codes of the 'error' event ("alert": no code, message with 'alert')
SocketErrors == {"ECONNREFUSED", "ENOTFOUND", "ETIMEDOUT", "ECONNRESET", "alert", "EPROTO"}

\* what the connection would deliver: the data read in 'secureConnect',
\* whether reading it throws, and the error of the 'error' event
HandshakeSites ==
  [sslInfo : HandshakeSslInfos, readThrows : BOOLEAN, error : SocketErrors]

HandshakeInit ==
  /\ pc = "getSSLInfo"
  /\ site \in HandshakeSites
  /\ IdleHandshake
  /\ attempt = 0 /\ lastError = None /\ waited = 0 /\ config = NoOptions
  /\ wire = <<>> /\ httpResponse = None /\ raised = None
  /\ IdleValidator /\ IdleAnalysis /\ IdleGrade /\ IdleTls /\ IdleRepeat

\* lines 65-85: tls.connect, setTimeout, the handlers are registered
GetSSLInfo ==
  /\ pc = "getSSLInfo"
  /\ tlsSocket' = [destroyed |-> FALSE]
  /\ timeoutId' = "armed"
  /\ sslInfoPromise' = Pending
  /\ pc' = "connecting"
  /\ UNCHANGED <<fired, tlsVars, repeatVars, url, dns, urlValidation, tried, attempt,
                 lastError, waited, config, site, wire, httpResponse, raised, tasks,
                 analysis, res, gradeScore, grades>>

\* the callback of setTimeout, lines 82-85
ManualTimeout ==
  /\ pc = "connecting"
  /\ timeoutId = "armed"
  /\ timeoutId' = "fired"
  /\ tlsSocket' = [destroyed |-> TRUE]
  /\ sslInfoPromise' = SettlePromise(sslInfoPromise, RejectedWith("SSL handshake timeout"))
  /\ fired' = Append(fired, "timer")
  /\ UNCHANGED <<pc, tlsVars, repeatVars, url, dns, urlValidation, tried, attempt,
                 lastError, waited, config, site, wire, httpResponse, raised, tasks,
                 analysis, res, gradeScore, grades>>

\* socket.on('secureConnect'), lines 87-114
SocketOnSecureConnect ==
  /\ pc = "connecting"
  /\ "secureConnect" \notin Range(fired)
  /\ timeoutId' = ClearTimeout(timeoutId)
  /\ tlsSocket' = [destroyed |-> TRUE]
  /\ sslInfoPromise' =
       SettlePromise(sslInfoPromise,
                     IF site.readThrows THEN RejectedWith("getPeerCertificate")
                     ELSE Fulfilled(site.sslInfo))
  /\ fired' = Append(fired, "secureConnect")
  /\ UNCHANGED <<pc, tlsVars, repeatVars, url, dns, urlValidation, tried, attempt,
                 lastError, waited, config, site, wire, httpResponse, raised, tasks,
                 analysis, res, gradeScore, grades>>

\* socket.on('error'), lines 116-144
SocketOnError ==
  /\ pc = "connecting"
  /\ "error" \notin Range(fired)
  /\ timeoutId' = ClearTimeout(timeoutId)
  /\ tlsSocket' = [destroyed |-> TRUE]
  /\ sslInfoPromise' = SettlePromise(sslInfoPromise, RejectedWith(HandshakeError(site.error)))
  /\ fired' = Append(fired, "error")
  /\ UNCHANGED <<pc, tlsVars, repeatVars, url, dns, urlValidation, tried, attempt,
                 lastError, waited, config, site, wire, httpResponse, raised, tasks,
                 analysis, res, gradeScore, grades>>

\* socket.on('timeout') that leaves the manual timer running
SocketOnTimeout_NoClearTimeout ==
  /\ pc = "connecting"
  /\ "timeout" \notin Range(fired)
  /\ timeoutId' = timeoutId
  /\ tlsSocket' = [destroyed |-> TRUE]
  /\ sslInfoPromise' = SettlePromise(sslInfoPromise, RejectedWith("SSL connection timeout"))
  /\ fired' = Append(fired, "timeout")
  /\ UNCHANGED <<pc, tlsVars, repeatVars, url, dns, urlValidation, tried, attempt,
                 lastError, waited, config, site, wire, httpResponse, raised, tasks,
                 analysis, res, gradeScore, grades>>

\* socket.on('timeout'), lines 146-150
SocketOnTimeout ==
  /\ pc = "connecting"
  /\ "timeout" \notin Range(fired)
  /\ timeoutId' = ClearTimeout(timeoutId)
  /\ tlsSocket' = [destroyed |-> TRUE]
  /\ sslInfoPromise' = SettlePromise(sslInfoPromise, RejectedWith("SSL connection timeout"))
  /\ fired' = Append(fired, "timeout")
  /\ UNCHANGED <<pc, tlsVars, repeatVars, url, dns, urlValidation, tried, attempt,
                 lastError, waited, config, site, wire, httpResponse, raised, tasks,
                 analysis, res, gradeScore, grades>>

HandshakeNext ==
  \/ GetSSLInfo
  \/ ManualTimeout
  \/ SocketOnSecureConnect
  \/ SocketOnError
  \/ SocketOnTimeout

SpecHandshake == HandshakeInit /\ [][HandshakeNext]_vars

\* the outcome the handler of an event, or the timer, settles a pending
\* promise with
OutcomeOf(event) ==
  CASE event = "secureConnect" ->
         IF site.readThrows THEN [status |-> "rejected", message |-> "getPeerCertificate"]
         ELSE [status |-> "fulfilled", value |-> site.sslInfo]
    [] event = "error" -> [status |-> "rejected", message |-> HandshakeError(site.error)]
    [] event = "timeout" -> [status |-> "rejected", message |-> "SSL connection timeout"]
    [] event = "timer" -> [status |-> "rejected", message |-> "SSL handshake timeout"]

\* the promise is settled with that outcome
SettledWith(promise, outcome) ==
  /\ promise.status = outcome.status
  /\ outcome.status = "fulfilled" => promise.value = outcome.value
  /\ outcome.status = "rejected" => promise.reason.message = outcome.message

\* C24: whatever the order in which 'secureConnect', 'error', the socket
\* 'timeout' and the manual timer fire, the handshake promise is pending
\* until the first of them and from then on settled with the outcome of
\* the first; the socket is destroyed as soon as one has fired; and when
\* the first was a socket event the manual timer is cleared.
C24_SettlesOnceWithFirstOutcome ==
  pc = "connecting" =>
    /\ fired = <<>> => sslInfoPromise.status = "pending" /\ ~tlsSocket.destroyed
    /\ fired # <<>> =>
         /\ SettledWith(sslInfoPromise, OutcomeOf(fired[1]))
         /\ tlsSocket.destroyed
         /\ fired[1] # "timer" => timeoutId = "cleared"
         /\ fired[1] = "timer" => timeoutId = "fired"

\* the timer fired first and all three socket events after it
C24_Witness ==
  /\ pc = "connecting"
  /\ Len(fired) = 4
  /\ fired[1] = "timer"
  /\ sslInfoPromise.status = "rejected"
  /\ sslInfoPromise.reason.message = "SSL handshake timeout"

\* 'secureConnect' first, 'error' and 'timeout' after it
C24_WitnessResolved ==
  /\ pc = "connecting"
  /\ Len(fired) = 3
  /\ fired[1] = "secureConnect"
  /\ sslInfoPromise.status = "fulfilled"
  /\ timeoutId = "cleared"

----------------------------------------------------------------------------
(* SpecHeaderScore: headerAnalyzer.analyzeHeaders on one response, under    *)
(* each of the four URLs, for every set of catalog headers the response    *)
(* can carry.                                                              *)

\* Strict-Transport-Security values, as their parts
MaxAgePart(seconds) == [name |-> "max-age", seconds |-> seconds]
HstsValues ==
  {<<MaxAgePart(31536000), [name |-> "includesubdomains"], [name |-> "preload"]>>,
   <<MaxAgePart(63072000)>>,
   <<MaxAgePart(31535999), [name |-> "includesubdomains"]>>,
   <<MaxAgePart(300)>>,
   <<MaxAgePart(0), [name |-> "preload"]>>,
   <<[name |-> "includesubdomains"], [name |-> "preload"]>>}

\* the sub-score of the other headers: the best or the worst their analysis
\* gives without a finding
HeaderValueOf(key, best) ==
  LET scores == WellConfiguredScores(key)
  IN [subScore |-> CHOOSE v \in scores :
                     \A w \in scores : IF best THEN w <= v ELSE v <= w]

\* the responses: every set of present catalog headers
ScoredHeaders ==
  UNION {
    IF "strict-transport-security" \in keys
    THEN {[k \in keys |-> IF k = "strict-transport-security" THEN [parts |-> hsts]
                          ELSE HeaderValueOf(k, best)] :
            hsts \in HstsValues, best \in BOOLEAN}
    ELSE {[k \in keys |-> HeaderValueOf(k, best)] : best \in BOOLEAN}
    : keys \in SUBSET HeaderKeys}

HeaderScoreInit ==
  /\ pc = "headerScore"
  /\ httpResponse \in ScoredHeaders
  /\ url = None /\ dns = None /\ urlValidation = None /\ tried = <<>>
  /\ attempt = 0 /\ lastError = None /\ waited = 0 /\ config = NoOptions
  /\ site = None /\ wire = <<>> /\ raised = None
  /\ IdleAnalysis /\ IdleGrade /\ IdleTls /\ IdleRepeat /\ IdleHandshake

\* headerAnalyzer.analyzeHeaders(headers, url) under each URL
ScoreHeaders ==
  /\ pc = "headerScore"
  /\ \E tieUp \in BOOLEAN :
       analysis' = [u \in HeaderUrls |-> analyzeHeaders(httpResponse, u, tieUp)]
  /\ pc' = "headersScored"
  /\ UNCHANGED <<tlsVars, repeatVars, handshakeVars, url, dns, urlValidation, tried,
                 attempt, lastError, waited, config, site, wire, httpResponse, raised,
                 tasks, res, gradeScore, grades>>

HeaderScoreNext == ScoreHeaders

SpecHeaderScore == HeaderScoreInit /\ [][HeaderScoreNext]_vars

----------------------------------------------------------------------------
(* Claims about the header score *)

\* the points of the present headers minus the penalties of the missing
\* headers that are not optional, in hundredths of a weight unit
HeaderPoints(a) ==
  LET Entry(n) == CHOOSE h \in Range(SECURITY_HEADERS) : h.name = n
      Rate(h) == CASE h.severity = "critical" -> 30 [] h.severity = "high" -> 20
                   [] h.severity = "medium" -> 10 [] OTHER -> 0
      present == [i \in DOMAIN a.present |->
                    Entry(a.present[i]).weight
                    * (IF a.details[a.present[i]].score = 0 THEN 50
                       ELSE a.details[a.present[i]].score)]
      missing == [i \in DOMAIN a.missing |->
                    IF isOptionalHeader(a.missing[i], a.url) THEN 0
                    ELSE Entry(a.missing[i]).weight * Rate(Entry(a.missing[i]))]
  IN SumSeq(present) - SumSeq(missing)

TotalWeight == SumSeq([i \in DOMAIN SECURITY_HEADERS |-> SECURITY_HEADERS[i].weight])

\* x is round(100 * points / total weight), clamped to 0..100, for one of
\* the two ways of rounding an exact half
IsClampedRounded(x, points) ==
  LET clamped == Max(0, Min(100 * TotalWeight, points))
  IN \E tieUp \in BOOLEAN : x = MathRound(clamped, TotalWeight, tieUp)

\* C25 as stated: the header score is the clamped, rounded quotient of the
\* points of the present headers minus the penalties of the non-optional
\* missing headers by the total weight; a response with none of the ten
\* catalog headers scores 0 whatever the URL scheme.
C25_Original_OnlyPresentHeadersAdd ==
  pc = "headersScored" =>
    \A u \in HeaderUrls :
      /\ IsClampedRounded(analysis[u].score, HeaderPoints(analysis[u]))
      /\ analysis[u].present = <<>> => analysis[u].score = 0

\* what the analyzer computes: the same quotient with 30 weight units added
\* for an https URL
C25_HttpsAddsThirty ==
  pc = "headersScored" =>
    \A u \in HeaderUrls :
      IsClampedRounded(analysis[u].score,
                       HeaderPoints(analysis[u])
                       + (IF StartsWith(u, Https) THEN 3000 ELSE 0))


\* the parts of an HSTS value with max-age set to one year, the other parts
\* unchanged
WithMaxAgeOneYear(parts) ==
  <<MaxAgePart(31536000)>> \o SelectSeq(parts, LAMBDA part : part.name # "max-age")

\* the response carries Strict-Transport-Security with max-age absent or
\* below one year
HasShortMaxAge(headers) ==
  /\ "strict-transport-security" \in DOMAIN headers
  /\ parseHSTSParams(headers["strict-transport-security"].parts).maxAge < 31536000

\* C26 as stated: an HSTS header whose max-age is absent or below 31536000
\* yields an hsts_short_max_age finding, and its sub-score is strictly
\* lower than the sub-score of the same value with max-age >= 31536000.
C26_Original_ShortMaxAgeScoresLower ==
  (pc = "headersScored" /\ HasShortMaxAge(httpResponse)) =>
    \A u \in HeaderUrls :
      LET detail == analysis[u].details["Strict-Transport-Security"]
          parts == httpResponse["strict-transport-security"].parts
      IN /\ \E i \in DOMAIN detail.vulnerabilities :
              detail.vulnerabilities[i].type = "hsts_short_max_age"
         /\ detail.score < analyzeHSTS(WithMaxAgeOneYear(parts)).score

\* what the analysis does: the finding is recorded, and the sub-score is
\* the one of the same value with max-age of one year
C26_FindingButSameSubScore ==
  (pc = "headersScored" /\ "strict-transport-security" \in DOMAIN httpResponse) =>
    \A u \in HeaderUrls :
      LET detail == analysis[u].details["Strict-Transport-Security"]
          parts == httpResponse["strict-transport-security"].parts
      IN /\ HasShortMaxAge(httpResponse)
              <=> detail.vulnerabilities = <<Finding("hsts_short_max_age", "medium")>>
         /\ detail.score = analyzeHSTS(WithMaxAgeOneYear(parts)).score

\* the URL of u's scheme that is not on the list of major sites
PlainUrlOf(u) == <<u[1], NameTok("example.com")>>

\* C30 as stated: for the same header map and the same scheme, the header
\* score under a URL of a major site is never lower than the header score
\* under a URL that is not one, whatever catalog headers are missing.
C30_Original_MajorSiteNeverLower ==
  pc = "headersScored" =>
    \A u \in HeaderUrls :
      UrlIncludes(u, "google.com") => analysis[u].score >= analysis[PlainUrlOf(u)].score

\* what the analyzer computes: a major site is spared the penalties of
\* X-XSS-Protection and X-Frame-Options and charged those of
\* Permissions-Policy and Referrer-Policy, so its score is not lower only
\* when neither of the latter two is missing
C30_NotLowerUnlessPolicyHeadersMissing ==
  pc = "headersScored" =>
    \A u \in HeaderUrls :
      (/\ UrlIncludes(u, "google.com")
       /\ "permissions-policy" \in DOMAIN httpResponse
       /\ "referrer-policy" \in DOMAIN httpResponse)
        => analysis[u].score >= analysis[PlainUrlOf(u)].score

----------------------------------------------------------------------------
(* Claims about the HTML analysis *)

\* the report holds the result of _analyzeHTML (the analyzer did not fail)
HtmlAnalyzed == ReportSent /\ tasks.html.status = "fulfilled"

\* what the page and its URL give: password forms on a URL that is not
\* https, password forms submitted with GET, external scripts loaded over
\* http://, and a missing charset
PasswordFormsNoHttps(page, u) ==
  IF StartsWith(u, Https) THEN 0
  ELSE CountWhere(page.forms, LAMBDA form : form.hasPasswordField)
PasswordFormsWithGet(page) ==
  CountWhere(page.forms, LAMBDA form : form.hasPasswordField /\ form.method = "get")
ExternalHttpScripts(page, u) ==
  CountWhere(page.scripts,
             LAMBDA src : SrcIsHttp(src) /\ ~SrcStartsWithSlash(src)
                          /\ ~SrcStartsWithUrl(src, u))
MissingCharset(page) == IF page.hasCharset THEN 0 ELSE 1

FindingsOf(a, type, severity) ==
  CountWhere(a.vulnerabilities, LAMBDA v : v.type = type /\ v.severity = severity)

----------------------------------------------------------------------------
(* SpecSslScore: _analyzeSSLInfo and _calculateSSLScore on the connection   *)
(* data of a completed handshake.  The certificate analysis carries the    *)
(* findings of _analyzeCertificate and, under chain and extensions, those  *)
(* of _analyzeChain and _analyzeExtensions.                                *)

ChainFindings == {<<>>, <<Finding("incomplete_chain", "medium")>>}
ExtensionFindings == {<<>>, <<Finding("missing_extensions", "medium")>>}

ScoredSslInfos ==
  {[path |-> "detailed", authorized |-> a, authorizationError |-> ~a,
    certificate |-> [vulnerabilities |-> c, chain |-> [vulnerabilities |-> ch],
                     extensions |-> [vulnerabilities |-> ex]],
    protocol |-> p, cipher |-> k] :
     a \in BOOLEAN, c \in CertificateFindings, ch \in ChainFindings,
     ex \in ExtensionFindings, p \in Protocols, k \in CipherAnalyses}

SslScoreInit ==
  /\ pc = "analyzeSSLInfo"
  /\ site \in ScoredSslInfos
  /\ attempt = 0 /\ lastError = None /\ waited = 0 /\ config = NoOptions
  /\ wire = <<>> /\ httpResponse = None /\ raised = None
  /\ IdleValidator /\ IdleAnalysis /\ IdleGrade /\ IdleTls /\ IdleRepeat /\ IdleHandshake

\* _analyzeSSLInfo(sslInfo)
AnalyzeSSLInfo ==
  /\ pc = "analyzeSSLInfo"
  /\ analysis' = analyzeSSLInfo(site)
  /\ pc' = "sslScored"
  /\ UNCHANGED <<tlsVars, repeatVars, handshakeVars, url, dns, urlValidation, tried,
                 attempt, lastError, waited, config, site, wire, httpResponse, raised,
                 tasks, res, gradeScore, grades>>

SslScoreNext == AnalyzeSSLInfo

SpecSslScore == SslScoreInit /\ [][SslScoreNext]_vars

----------------------------------------------------------------------------
(* Claims about the TLS score *)

\* the analysis without the findings of the certificate's chain and
\* extensions
WithoutChainAndExtensionFindings(a) ==
  [a EXCEPT !.certificate = [vulnerabilities |-> a.certificate.vulnerabilities,
                             chain |-> [vulnerabilities |-> <<>>],
                             extensions |-> [vulnerabilities |-> <<>>]]]

\* the score takes no bonus
NoBonus(a) == a.protocol.version # "TLSv1.3" /\ a.cipher.bits < 256

\* C28 as stated: the score loses a penalty for every finding, the
\* certificate's chain and extension findings included: with such a
\* finding, and neither a bonus nor the clamp at 0 in the way, the score is
\* lower than the score of the same analysis without it.
C28_Original_EveryFindingPenalized ==
  (/\ pc = "sslScored"
   /\ analysis.certificate.chain.vulnerabilities
        \o analysis.certificate.extensions.vulnerabilities # <<>>
   /\ NoBonus(analysis)
   /\ calculateSSLScore(WithoutChainAndExtensionFindings(analysis)) > 0)
    => analysis.score < calculateSSLScore(WithoutChainAndExtensionFindings(analysis))

\* what the score is: 100 (30 when not authorized) minus the penalties of
\* the top-level, certificate, protocol and cipher findings, plus 5 for
\* TLS 1.3 and 3 for a cipher of at least 256 bits, between 0 and 100; the
\* chain and extension findings do not change it
C28_ScoreIgnoresChainAndExtensionFindings ==
  pc = "sslScored" =>
    LET Sum(f, Pen(_)) == SumSeq([i \in DOMAIN f |-> Pen(f[i])])
        raw == (IF analysis.isValid THEN 100 ELSE 30)
               - Sum(analysis.vulnerabilities, SslPenalty)
               - Sum(analysis.certificate.vulnerabilities, CertPenalty)
               - Sum(analysis.protocol.vulnerabilities, ComponentPenalty)
               - Sum(analysis.cipher.vulnerabilities, ComponentPenalty)
               + (IF analysis.protocol.version = "TLSv1.3" THEN 5 ELSE 0)
               + (IF analysis.cipher.bits >= 256 THEN 3 ELSE 0)
    IN /\ analysis.score = Max(0, Min(100, raw))
       /\ analysis.score = calculateSSLScore(WithoutChainAndExtensionFindings(analysis))

----------------------------------------------------------------------------
(* Claims about the independence of the analyzers *)

\* the fetch result of the run: what httpClient.get returned
FetchResult == processResponse(200, site, urlValidation.url)

\* what the analyzer of a category settles with when it is given the
\* validated URL and the fetch result, whatever has settled before it (the
\* TLS analyzer reads what the host of the URL presents on its own
\* connection, site.tls)
ResultOnFetchResult(category) ==
  CASE category = "ssl" ->
         IF ~urlValidation.isHttps THEN Fulfilled(NonHttpsSSL)
         ELSE Fulfilled(analyzeSSL(site.tls))
    [] category = "headers" ->
         Fulfilled(analyzeHeaders(FetchResult.headers, urlValidation.url, halfUp))
    [] category = "cookies" ->
         Fulfilled(analyzeCookies(FetchResult.cookies, urlValidation.url, halfUp))
    [] category = "html" ->
         IF "html" \in site.throwing THEN Rejected("HTML")
         ELSE Fulfilled(analyzeHTML(FetchResult.data, urlValidation.url))

\* C29: while the analyzers of a run settle, in whatever order, the fetch
\* result stays as it was returned, every settled analyzer holds the result
\* it gives on the validated URL and that fetch result alone, and it keeps
\* it while the others settle; the report of a finished run holds these
\* results whichever analyzer settled first.
C29_AnalyzersIndependent ==
  /\ pc = "settling" =>
       /\ httpResponse = FetchResult
       /\ \A category \in DOMAIN tasks :
            tasks[category].status # "pending"
              => tasks[category] = ResultOnFetchResult(category)
       /\ \A i \in DOMAIN finished : tasks[finished[i]].status # "pending"
  /\ \A i \in DOMAIN runs :
       /\ runs[i].report.ssl = processSettledResult(ResultOnFetchResult("ssl"), "SSL")
       /\ runs[i].report.headers
            = processSettledResult(ResultOnFetchResult("headers"), "Headers")
       /\ runs[i].report.cookies
            = processSettledResult(ResultOnFetchResult("cookies"), "Cookies")
       /\ runs[i].report.html = processSettledResult(ResultOnFetchResult("html"), "HTML")

\* all four analyzers of the second run have settled, the cookie analyzer
\* last and after the header analyzer; the first run settled another way
C29_Witness ==
  /\ pc = "settling"
  /\ Len(runs) = 1
  /\ Len(finished) = 4
  /\ finished[4] = "cookies"
  /\ finished[1] = "html"
  /\ runs[1].settledFirst = "ssl"
  /\ tasks.cookies.value.hasCookies

====
